---- MODULE Spec2Model ----
(***************************************************************************)
(* Model of the ACM policy diagnosis core of kube-compare-mcp               *)
(* (pkg/mcpserver: diagnose_acm_policy and inspect_acm_policy).             *)
(*                                                                         *)
(* Go strings are modelled as sequences of one-character strings, so that   *)
(* strings.Index, strings.IndexAny, strings.TrimSpace, strings.ToLower and  *)
(* slicing are computed as the code computes them.  Indexes are 0-based as  *)
(* in Go; -1 means "not found".                                             *)
(***************************************************************************)
EXTENDS Integers, Sequences, FiniteSets, TLC

VARIABLES
    \* ---- one classifyAndEnrich call (specification SpecMsg) ----
    msg,            \* the history message handed to classifyAndEnrich
    msgIndex,       \* the DesiredStateIndex handed to classifyAndEnrich
    msgParsed,      \* what parseViolationResource returned for msg (0/1-element sequence)
    msgIssue,       \* the diagnosedIssue it produced (a 0/1-element sequence)
    \* ---- one tool request (specification Spec) ----
    tool,           \* "diagnose" or "inspect": which handler serves the request
    pc,             \* position of the handler
    canceled,       \* the caller's context is canceled
    input,          \* the tool input: PolicyName, Namespace, Cluster
    hub,            \* the policies on the hub, in the order ListResources returns them
    canceledAtEntry,\* the context was canceled when the handler was entered
    requestIDCounter,
    policy,         \* the resolved policy object (the fields the handlers read)
    resolvedNS,     \* the namespace resolvePolicy returned
    idx,            \* number of status.status entries already visited
    clusters,       \* diag.Clusters / result.AffectedClusters built so far
    violations,     \* result.Violations of an inspect request
    fetches,        \* log of the inspector calls issued, in order
    panicked,       \* a panic was raised and recovered by the handler's deferred function
    result,         \* what the handler returned
    \* ---- concurrent generateRequestID calls (specification SpecIDs) ----
    calls           \* per call: its position, the counter value Add returned, the id's suffix

vars == <<msg, msgIndex, msgParsed, msgIssue, tool, input, hub, pc, canceled,
          canceledAtEntry, requestIDCounter, policy, resolvedNS, idx, clusters,
          violations, fetches, panicked, result, calls>>

msgVars == <<msg, msgIndex, msgParsed, msgIssue>>
reqVars == <<tool, input, hub, pc, canceled, canceledAtEntry, requestIDCounter,
             policy, resolvedNS, idx, clusters, violations, fetches, panicked, result>>

(***************************************************************************)
(* Bounds of the model.                                                    *)
(***************************************************************************)
MaxChunks == 3        \* a free-form message is at most this many chunks long
MaxClusters == 2      \* status.status has at most this many entries
MaxFragments == 3     \* a looked-up index is built from at most this many fragments
MaxTemplates == 2     \* an indexed policy has at most this many policy-templates
MaxCalls == 4         \* at most this many generateRequestID calls run concurrently

(***************************************************************************)
(* String literals of the source and of the inputs.                        *)
(***************************************************************************)
S_in_namespace == <<"i","n"," ","n","a","m","e","s","p","a","c","e"," ">>
S_not_found == <<"n","o","t"," ","f","o","u","n","d">>
S_not_as_specified == <<"n","o","t"," ","a","s"," ","s","p","e","c","i","f","i","e","d">>
S_installplan == <<"i","n","s","t","a","l","l","p","l","a","n">>
S_clusterserviceversion == <<"c","l","u","s","t","e","r","s","e","r","v","i","c","e","v","e","r","s","i","o","n">>
S_violation_dash == <<"v","i","o","l","a","t","i","o","n"," ","-"," ">>
S_Subscription == <<"S","u","b","s","c","r","i","p","t","i","o","n">>
S_subscriptions == <<"s","u","b","s","c","r","i","p","t","i","o","n","s">>
S_subscriptions_fq == <<"s","u","b","s","c","r","i","p","t","i","o","n","s",".","o","p","e","r","a","t","o","r","s",".","c","o","r","e","o","s",".","c","o","m">>
S_ClusterServiceVersion == <<"C","l","u","s","t","e","r","S","e","r","v","i","c","e","V","e","r","s","i","o","n">>
S_clusterserviceversions == <<"c","l","u","s","t","e","r","s","e","r","v","i","c","e","v","e","r","s","i","o","n","s">>
S_Operator == <<"O","p","e","r","a","t","o","r">>
S_operators == <<"o","p","e","r","a","t","o","r","s">>
S_operators_fq == <<"o","p","e","r","a","t","o","r","s",".","o","p","e","r","a","t","o","r","s",".","c","o","r","e","o","s",".","c","o","m">>
S_InstallPlan == <<"I","n","s","t","a","l","l","P","l","a","n">>
S_installplans == <<"i","n","s","t","a","l","l","p","l","a","n","s">>
S_CatalogSource == <<"C","a","t","a","l","o","g","S","o","u","r","c","e">>
S_catalogsources == <<"c","a","t","a","l","o","g","s","o","u","r","c","e","s">>
S_openshift_operators == <<"o","p","e","n","s","h","i","f","t","-","o","p","e","r","a","t","o","r","s">>
S_could_not_fetch == <<"C","o","u","l","d"," ","n","o","t"," ","f","e","t","c","h"," ","p","r","o","p","a","g","a","t","e","d"," ","p","o","l","i","c","y"," ">>
S_in_namespace_mid == <<" ","i","n"," ","n","a","m","e","s","p","a","c","e"," ">>
S_ConfigurationPolicy == <<"C","o","n","f","i","g","u","r","a","t","i","o","n","P","o","l","i","c","y">>
S_upper == <<"A","B","C","D","E","F","G","H","I","J","K","L","M","N","O","P","Q","R","S","T","U","V","W","X","Y","Z">>
S_lower == <<"a","b","c","d","e","f","g","h","i","j","k","l","m","n","o","p","q","r","s","t","u","v","w","x","y","z">>
S_nodes == <<"n","o","d","e","s">>
S_Node == <<"N","o","d","e">>
S_Not_Found == <<"N","o","t"," ","F","o","u","n","d">>
S_worker_1 == <<"w","o","r","k","e","r","-","1">>
S_my_operator == <<"m","y","-","o","p","e","r","a","t","o","r">>
S_web_terminal == <<"w","e","b","-","t","e","r","m","i","n","a","l">>
S_ScenarioA == <<"n","o","d","e","s"," ","[","w","o","r","k","e","r","-","1","]"," ","n","o","t"," ","f","o","u","n","d">>
S_ScenarioB == <<"[","S","u","b","s","c","r","i","p","t","i","o","n","]"," ","m","y","-","o","p","e","r","a","t","o","r"," ","i","n"," ","n","a","m","e","s","p","a","c","e"," ","o","p","e","n","s","h","i","f","t","-","o","p","e","r","a","t","o","r","s"," ","n","o","t"," ","a","s"," ","s","p","e","c","i","f","i","e","d">>
S_OperatorsDrift == <<"o","p","e","r","a","t","o","r","s"," ","[","w","e","b","-","t","e","r","m","i","n","a","l",".","o","p","e","n","s","h","i","f","t","-","w","e","b","-","t","e","r","m","i","n","a","l","]"," ","f","o","u","n","d"," ","b","u","t"," ","n","o","t"," ","a","s"," ","s","p","e","c","i","f","i","e","d">>
S_NodesDrift == <<"n","o","d","e","s"," ","f","o","u","n","d"," ","b","u","t"," ","n","o","t"," ","a","s"," ","s","p","e","c","i","f","i","e","d">>
S_Prefixed == <<"N","o","n","C","o","m","p","l","i","a","n","t",";"," ","v","i","o","l","a","t","i","o","n"," ","-"," ","n","a","m","e","s","p","a","c","e","s"," ","[","a","p","p","1","]"," ","n","o","t"," ","f","o","u","n","d">>
S_InstallPlanStuck == <<"i","n","s","t","a","l","l","p","l","a","n"," ","a","p","p","r","o","v","a","l"," ","p","e","n","d","i","n","g">>
S_T1 == <<"T","1">>
S_T2 == <<"T","2">>
S_spoke1 == <<"s","p","o","k","e","-","1">>
S_spoke2 == <<"s","p","o","k","e","-","2">>
S_sno_abi == <<"s","n","o","-","a","b","i">>
S_ztp == <<"z","t","p">>
S_pol == <<"p","o","l">>

(***************************************************************************)
(* Go's string primitives over character sequences.                        *)
(***************************************************************************)
\* s[from:to]
Slice(s, from, to) == SubSeq(s, from + 1, to)

\* s[from:]
SliceFrom(s, from) == SubSeq(s, from + 1, Len(s))

HasPrefixAt(s, sub, i) ==
    /\ i + Len(sub) <= Len(s)
    /\ SubSeq(s, i + 1, i + Len(sub)) = sub

MinOf(S) == CHOOSE x \in S : \A y \in S : x <= y

\* strings.Index(s, sub)
Index(s, sub) ==
    LET hits == {i \in 0..(Len(s) - Len(sub)) : HasPrefixAt(s, sub, i)}
    IN  IF hits = {} THEN -1 ELSE MinOf(hits)

\* strings.IndexAny(s, chars)
IndexAny(s, chars) ==
    LET hits == {i \in 0..(Len(s) - 1) : s[i + 1] \in chars}
    IN  IF hits = {} THEN -1 ELSE MinOf(hits)

\* strings.Contains(s, sub)
Contains(s, sub) == Index(s, sub) >= 0

\* the characters unicode.IsSpace accepts among those a message is built from
WhiteSpace == {" ", "\t", "\n", "\r"}

\* strings.TrimSpace(s)
TrimSpace(s) ==
    LET keep == {i \in 1..Len(s) : s[i] \notin WhiteSpace}
    IN  IF keep = {} THEN <<>>
        ELSE SubSeq(s, MinOf(keep), CHOOSE x \in keep : \A y \in keep : y <= x)

UpperChars == {S_upper[i] : i \in 1..Len(S_upper)}
LowerOf == [c \in UpperChars |-> S_lower[CHOOSE i \in 1..Len(S_upper) : S_upper[i] = c]]

LowerChar(c) == IF c \in UpperChars THEN LowerOf[c] ELSE c

\* strings.ToLower(s)
ToLower(s) == [i \in 1..Len(s) |-> LowerChar(s[i])]

\* strings.EqualFold(a, b), for the ASCII strings of the model
EqualFold(a, b) == ToLower(a) = ToLower(b)

\* strings.SplitN(s, sep, 3) for a one-character separator
SplitN3(s, sep) ==
    LET i1 == Index(s, sep)
    IN  IF i1 < 0 THEN <<s>>
        ELSE LET r1 == SliceFrom(s, i1 + 1)
                 i2 == Index(r1, sep)
             IN  IF i2 < 0 THEN <<Slice(s, 0, i1), r1>>
                 ELSE <<Slice(s, 0, i1), Slice(r1, 0, i2), SliceFrom(r1, i2 + 1)>>

\* strings.SplitN(s, sep, 2) for a one-character separator
SplitN2(s, sep) ==
    LET i1 == Index(s, sep)
    IN  IF i1 < 0 THEN <<s>> ELSE <<Slice(s, 0, i1), SliceFrom(s, i1 + 1)>>

(***************************************************************************)
(* parseViolationResource: kind, name and namespace of a violation detail. *)
(***************************************************************************)
SpaceTab == {" ", "\t"}
NamespaceStop == {" ", "\t", ";", ","}

\* a faulty variant: the name is cut one character short of the closing bracket
parseKindBracketName_NameOffByOne(detail) ==
    LET openBracket == Index(detail, <<"[">>)
    IN  IF openBracket > 0
        THEN LET closeBracket == Index(SliceFrom(detail, openBracket), <<"]">>)
             IN  [kind |-> TrimSpace(Slice(detail, 0, openBracket)),
                  name |-> IF closeBracket > 0
                           THEN Slice(detail, openBracket + 1, openBracket + closeBracket - 1)
                           ELSE <<>>]
        ELSE LET spIdx == IndexAny(detail, SpaceTab)
             IN  [kind |-> IF spIdx > 0 THEN Slice(detail, 0, spIdx) ELSE <<>>,
                  name |-> <<>>]

\* format "kind [name] ..." or "kind found/not found ...": detail[0] # '['
parseKindBracketName(detail) ==
    LET openBracket == Index(detail, <<"[">>)
    IN  IF openBracket > 0
        THEN LET closeBracket == Index(SliceFrom(detail, openBracket), <<"]">>)
             IN  [kind |-> TrimSpace(Slice(detail, 0, openBracket)),
                  name |-> IF closeBracket > 0
                           THEN Slice(detail, openBracket + 1, openBracket + closeBracket)
                           ELSE <<>>]
        ELSE LET spIdx == IndexAny(detail, SpaceTab)
             IN  [kind |-> IF spIdx > 0 THEN Slice(detail, 0, spIdx) ELSE <<>>,
                  name |-> <<>>]

\* a faulty variant: the name is the whole rest of the message, not its first token
parseBracketKindName_WholeRest(detail) ==
    LET closeBracket == Index(detail, <<"]">>)
    IN  IF closeBracket > 0
        THEN [kind |-> Slice(detail, 1, closeBracket),
              name |-> TrimSpace(SliceFrom(detail, closeBracket + 1))]
        ELSE [kind |-> <<>>, name |-> <<>>]

\* format "[kind] name ...": detail[0] = '['
parseBracketKindName(detail) ==
    LET closeBracket == Index(detail, <<"]">>)
    IN  IF closeBracket > 0
        THEN LET rest == TrimSpace(SliceFrom(detail, closeBracket + 1))
                 i == IndexAny(rest, SpaceTab)
             IN  [kind |-> Slice(detail, 1, closeBracket),
                  name |-> IF i > 0 THEN Slice(rest, 0, i)
                           ELSE IF rest # <<>> THEN rest ELSE <<>>]
        ELSE [kind |-> <<>>, name |-> <<>>]

\* the namespace after "in namespace "
parseNamespace(detail) ==
    LET nsIdx == Index(detail, S_in_namespace)
    IN  IF nsIdx >= 0
        THEN LET after == SliceFrom(detail, nsIdx + Len(S_in_namespace))
                 spIdx == IndexAny(after, NamespaceStop)
             IN  IF spIdx > 0 THEN Slice(after, 0, spIdx) ELSE after
        ELSE <<>>

parseViolationResource(detail0) ==
    LET detail == TrimSpace(detail0)
    IN  IF detail = <<>>
        THEN [kind |-> <<>>, name |-> <<>>, ns |-> <<>>]
        ELSE LET kn == IF detail[1] # "[" THEN parseKindBracketName(detail)
                       ELSE parseBracketKindName(detail)
             IN  [kind |-> kn.kind, name |-> kn.name, ns |-> parseNamespace(detail)]

(***************************************************************************)
(* Constants of diagnose_policy.go.                                        *)
(***************************************************************************)
\* a faulty variant: the compliant state is misspelled
complianceCompliant_Misspelled == "compliant"

complianceCompliant == "Compliant"
violationOLMStuck == "olm_stuck"
violationMissing == "resource_missing"
violationDrift == "resource_drift"
violationUnknown == "unknown"
maxViolationMessageLen == 300

(***************************************************************************)
(* The DesiredStateIndex: a Go map from "template/kind/name" to the        *)
(* desired objectDefinition.  A fragment records the fields the code reads *)
(* (kind, metadata.name, metadata.namespace) and an id standing for the    *)
(* rest of its content.  A Go map is visited in an unspecified order, so   *)
(* every lookup that returns "the first hit" is a set of possible results. *)
(***************************************************************************)
Fragment(kind, name, namespace, id) ==
    [kind |-> kind, hasMeta |-> TRUE, name |-> name, namespace |-> namespace, id |-> id]

\* key := fmt.Sprintf("%s/%s/%s", templateName, rKind, rName)
StateKey(templateName, rKind, rName) ==
    templateName \o <<"/">> \o rKind \o <<"/">> \o rName

\* a faulty variant: the lower-cased kind is compared with the names as listed
isOLMKind_LowerVsLiteral(kind) ==
    \E k \in {S_Subscription, S_subscriptions, S_subscriptions_fq,
              S_ClusterServiceVersion, S_clusterserviceversions,
              S_Operator, S_operators, S_operators_fq,
              S_InstallPlan, S_installplans,
              S_CatalogSource, S_catalogsources} : ToLower(kind) = k

isOLMKind(kind) ==
    \E k \in {S_Subscription, S_subscriptions, S_subscriptions_fq,
              S_ClusterServiceVersion, S_clusterserviceversions,
              S_Operator, S_operators, S_operators_fq,
              S_InstallPlan, S_installplans,
              S_CatalogSource, S_catalogsources} : EqualFold(kind, k)

\* tier 1 of matchDesiredState: template/kind/name
matchExact(desiredStates, templateName, rKind, rName) ==
    {key \in DOMAIN desiredStates :
        LET parts == SplitN3(key, <<"/">>)
        IN  /\ Len(parts) = 3
            /\ parts[1] = templateName
            /\ EqualFold(parts[2], rKind)
            /\ parts[3] = rName}

\* tier 2 of matchDesiredState: plural violation kind against singular Kind
matchFlexible(desiredStates, templateName, rKind, rName) ==
    {key \in DOMAIN desiredStates :
        LET parts == SplitN3(key, <<"/">>)
        IN  /\ Len(parts) = 3
            /\ parts[1] = templateName
            /\ LET objKind == ToLower(parts[2])
                   vKind == ToLower(rKind)
               IN  \/ objKind \o <<"s">> = vKind
                   \/ objKind \o <<"e", "s">> = vKind
                   \/ vKind \o <<"s">> = objKind
                   \/ vKind = objKind
            /\ (rName = <<>> \/ parts[3] = rName)}

\* a faulty variant: the last resort looks at the entries of every template
matchTemplate_AnyTemplate(desiredStates, templateName) ==
    {key \in DOMAIN desiredStates : Len(SplitN3(key, <<"/">>)) = 3}

\* tier 3 of matchDesiredState: the entries of the template
matchTemplate(desiredStates, templateName) ==
    {key \in DOMAIN desiredStates :
        LET parts == SplitN3(key, <<"/">>)
        IN  Len(parts) = 3 /\ parts[1] = templateName}

\* a faulty variant: the last resort guesses among several fragments
matchDesiredState_FallbackGuess(desiredStates, templateName, rKind, rName) ==
    LET exact == matchExact(desiredStates, templateName, rKind, rName)
        flexible == matchFlexible(desiredStates, templateName, rKind, rName)
        same == matchTemplate(desiredStates, templateName)
    IN  IF exact # {} THEN {<<desiredStates[key]>> : key \in exact}
        ELSE IF flexible # {} THEN {<<desiredStates[key]>> : key \in flexible}
        ELSE IF Cardinality(same) >= 1 THEN {<<desiredStates[key]>> : key \in same}
        ELSE {<<>>}

\* a faulty variant: the flexible tier is tried before the exact tier
matchDesiredState_FlexibleFirst(desiredStates, templateName, rKind, rName) ==
    LET exact == matchExact(desiredStates, templateName, rKind, rName)
        flexible == matchFlexible(desiredStates, templateName, rKind, rName)
        same == matchTemplate(desiredStates, templateName)
    IN  IF flexible # {} THEN {<<desiredStates[key]>> : key \in flexible}
        ELSE IF exact # {} THEN {<<desiredStates[key]>> : key \in exact}
        ELSE IF Cardinality(same) = 1 THEN {<<desiredStates[key]>> : key \in same}
        ELSE {<<>>}

\* matchDesiredState: the fragments it may return, each a 0/1-element
\* sequence (<<>> is Go's nil)
matchDesiredState(desiredStates, templateName, rKind, rName) ==
    LET exact == matchExact(desiredStates, templateName, rKind, rName)
        flexible == matchFlexible(desiredStates, templateName, rKind, rName)
        same == matchTemplate(desiredStates, templateName)
    IN  IF exact # {} THEN {<<desiredStates[key]>> : key \in exact}
        ELSE IF flexible # {} THEN {<<desiredStates[key]>> : key \in flexible}
        ELSE IF Cardinality(same) = 1 THEN {<<desiredStates[key]>> : key \in same}
        ELSE {<<>>}

\* a faulty variant: a Subscription fragment without a name is not skipped
findSubscriptionInDesiredStates_Unnamed(desiredStates) ==
    LET subs == {key \in DOMAIN desiredStates :
                    /\ EqualFold(desiredStates[key].kind, S_Subscription)
                    /\ desiredStates[key].hasMeta}
    IN  IF subs = {} THEN {<<>>}
        ELSE {<<[name |-> desiredStates[key].name,
                 namespace |-> desiredStates[key].namespace]>> : key \in subs}

\* findSubscriptionInDesiredStates: the subscriptionRefs it may return
findSubscriptionInDesiredStates(desiredStates) ==
    LET subs == {key \in DOMAIN desiredStates :
                    /\ EqualFold(desiredStates[key].kind, S_Subscription)
                    /\ desiredStates[key].hasMeta
                    /\ desiredStates[key].name # <<>>}
    IN  IF subs = {} THEN {<<>>}
        ELSE {<<[name |-> desiredStates[key].name,
                 namespace |-> desiredStates[key].namespace]>> : key \in subs}

\* buildOLMToolCall: the suggestedCalls it may return
buildOLMToolCall(rKind, rName, rNS, clusterName, desiredStates) ==
    LET isOperatorCR == \/ EqualFold(rKind, S_operators)
                        \/ EqualFold(rKind, S_Operator)
                        \/ EqualFold(rKind, S_operators_fq)
        Resolved(sub) ==
            IF isOperatorCR /\ sub # <<>>
            THEN [subName |-> sub[1].name,
                  subNS |-> IF sub[1].namespace # <<>> THEN sub[1].namespace ELSE rNS]
            ELSE IF isOperatorCR /\ Contains(rName, <<".">>)
            THEN LET parts == SplitN2(rName, <<".">>)
                 IN  [subName |-> parts[1], subNS |-> parts[2]]
            ELSE [subName |-> rName, subNS |-> rNS]
        Call(r) ==
            [Server |-> "openshift-mcp-server",
             Tool |-> "trace_olm_subscription",
             Args |-> [subscription_name |-> r.subName,
                       subscription_namespace |->
                           IF r.subNS = <<>> THEN S_openshift_operators ELSE r.subNS,
                       cluster |-> clusterName]]
    IN  {Call(Resolved(sub)) : sub \in findSubscriptionInDesiredStates(desiredStates)}

NoCall == [Server |-> "", Tool |-> "", Args |-> [cluster |-> <<>>]]

\* a faulty variant: kind-based promotion is lost, only the message text decides
buildSuggestedCall_NoPromotion(violationType, rKind, rName, rNS, clusterName, desiredStates) ==
    LET isOLM == violationType = violationOLMStuck
    IN  IF isOLM /\ rName # <<>>
        THEN {[ViolationType |-> violationOLMStuck, SuggestedToolCall |-> c] :
                c \in buildOLMToolCall(rKind, rName, rNS, clusterName, desiredStates)}
        ELSE {[ViolationType |-> violationType, SuggestedToolCall |-> NoCall]}

\* a faulty variant: the resources_list case is lost
buildSuggestedCall_NoList(violationType, rKind, rName, rNS, clusterName, desiredStates) ==
    LET isOLM == violationType = violationOLMStuck \/ isOLMKind(rKind)
    IN  IF isOLM /\ rName # <<>>
        THEN {[ViolationType |-> violationOLMStuck, SuggestedToolCall |-> c] :
                c \in buildOLMToolCall(rKind, rName, rNS, clusterName, desiredStates)}
        ELSE IF rKind # <<>> /\ rName # <<>>
        THEN {[ViolationType |-> violationType,
               SuggestedToolCall |->
                   [Server |-> "openshift-mcp-server",
                    Tool |-> "resources_get",
                    Args |-> [resource |-> ToLower(rKind) \o <<"/">> \o rName,
                              cluster |-> clusterName,
                              clean_metadata |-> TRUE,
                              hasNamespace |-> rNS # <<>>,
                              namespace |-> rNS]]]}
        ELSE {[ViolationType |-> violationType, SuggestedToolCall |-> NoCall]}

\* buildSuggestedCall: the (issue.ViolationType, suggestedCall) pairs it may
\* leave; it promotes the issue to olm_stuck in its OLM branch
buildSuggestedCall(violationType, rKind, rName, rNS, clusterName, desiredStates) ==
    LET isOLM == violationType = violationOLMStuck \/ isOLMKind(rKind)
        Resource(res, toolName) ==
            [Server |-> "openshift-mcp-server",
             Tool |-> toolName,
             Args |-> [resource |-> res,
                       cluster |-> clusterName,
                       clean_metadata |-> TRUE,
                       hasNamespace |-> rNS # <<>>,
                       namespace |-> rNS]]
    IN  IF isOLM /\ rName # <<>>
        THEN {[ViolationType |-> violationOLMStuck, SuggestedToolCall |-> c] :
                c \in buildOLMToolCall(rKind, rName, rNS, clusterName, desiredStates)}
        ELSE IF rKind # <<>> /\ rName # <<>>
        THEN {[ViolationType |-> violationType,
               SuggestedToolCall |->
                   Resource(ToLower(rKind) \o <<"/">> \o rName, "resources_get")]}
        ELSE IF rKind # <<>>
        THEN {[ViolationType |-> violationType,
               SuggestedToolCall |-> Resource(ToLower(rKind), "resources_list")]}
        ELSE {[ViolationType |-> violationType, SuggestedToolCall |-> NoCall]}

\* a faulty variant: the substrings are looked for in the message as written
classifyMessage_CaseSensitive(m) ==
    IF Contains(m, S_not_found) THEN violationMissing
    ELSE IF Contains(m, S_not_as_specified) THEN violationDrift
    ELSE IF Contains(m, S_installplan) \/ Contains(m, S_clusterserviceversion)
    THEN violationOLMStuck
    ELSE violationUnknown

\* the switch of classifyAndEnrich over the lower-cased message
classifyMessage(m) ==
    LET lower == ToLower(m)
    IN  IF Contains(lower, S_not_found) THEN violationMissing
        ELSE IF Contains(lower, S_not_as_specified) THEN violationDrift
        ELSE IF Contains(lower, S_installplan) \/ Contains(lower, S_clusterserviceversion)
        THEN violationOLMStuck
        ELSE violationUnknown

stripViolationPrefix_Whole(m) == m

\* violationMsg: the message after its first "violation - "
stripViolationPrefix(m) ==
    LET i == Index(m, S_violation_dash)
    IN  IF i >= 0 THEN SliceFrom(m, i + Len(S_violation_dash)) ELSE m

\* classifyAndEnrich: the issues it may leave for a message (issue.Message is
\* set by its caller and not touched here)
classifyAndEnrich(m, clusterName, templateName, desiredStates) ==
    LET r == parseViolationResource(stripViolationPrefix(m))
        vt == classifyMessage(m)
    IN  {[ViolationType |-> sc.ViolationType,
          TemplateName |-> templateName,
          ResourceKind |-> r.kind,
          ResourceName |-> r.name,
          ResourceNamespace |-> r.ns,
          Message |-> m,
          DesiredState |-> ds,
          SuggestedToolCall |-> sc.SuggestedToolCall] :
            ds \in matchDesiredState(desiredStates, templateName, r.kind, r.name),
            sc \in buildSuggestedCall(vt, r.kind, r.name, r.ns, clusterName, desiredStates)}

(***************************************************************************)
(* The untyped trees the handlers read.  Each record keeps, for every      *)
(* field the code reads, whether it is present with the expected type.     *)
(***************************************************************************)
\* one element of a history list
HistoryEntry(m) == [isMap |-> TRUE, message |-> m]
HistoryNotMap == [isMap |-> FALSE, message |-> <<>>]

\* one element of status.details; templateMeta is "map", "absent" or "notmap"
Detail(meta, templateName, compliant, history) ==
    [isMap |-> TRUE, templateMeta |-> meta, templateName |-> templateName,
     compliant |-> compliant, history |-> history]
DetailNotMap ==
    [isMap |-> FALSE, templateMeta |-> "absent", templateName |-> <<>>,
     compliant |-> "", history |-> <<>>]

\* one element of status.status
StatusEntry(clustername, compliant) ==
    [isMap |-> TRUE, clustername |-> clustername, compliant |-> compliant]
StatusNotMap == [isMap |-> FALSE, clustername |-> <<>>, compliant |-> ""]

\* one element of object-templates
ObjectTemplate(fragment) == [isMap |-> TRUE, hasObjDef |-> TRUE, desired |-> fragment]
ObjectTemplateNoDef ==
    [isMap |-> TRUE, hasObjDef |-> FALSE, desired |-> Fragment(<<>>, <<>>, <<>>, 0)]

\* one element of spec.policy-templates
PolicyTemplate(templateName, kind, objectTemplates) ==
    [isMap |-> TRUE, hasObjDef |-> TRUE, templateName |-> templateName, kind |-> kind,
     hasSpec |-> TRUE, isList |-> TRUE, objectTemplates |-> objectTemplates]

\* a policy object: metadata, status.compliant, spec.policy-templates, status.status
Policy(name, namespace, compliant, templates, statusList) ==
    [name |-> name, namespace |-> namespace, compliant |-> compliant,
     templates |-> templates, statusList |-> statusList]

(***************************************************************************)
(* The inputs the model draws from.                                        *)
(***************************************************************************)
FragNode == Fragment(S_Node, S_worker_1, <<>>, 1)
FragSubscription == Fragment(S_Subscription, S_my_operator, S_openshift_operators, 2)
FragOperator == Fragment(S_Operator, S_web_terminal, <<>>, 3)

TemplatesA ==
    << PolicyTemplate(S_T1, S_ConfigurationPolicy,
                      <<ObjectTemplate(FragNode), ObjectTemplateNoDef>>) >>
TemplatesB ==
    << PolicyTemplate(S_T1, S_ConfigurationPolicy,
                      <<ObjectTemplate(FragSubscription), ObjectTemplate(FragOperator)>>),
       PolicyTemplate(S_T2, <<"C", "e", "r", "t">>, <<ObjectTemplate(FragNode)>>) >>

StatusEntries ==
    {StatusEntry(S_spoke1, "NonCompliant"),
     StatusEntry(S_spoke2, "NonCompliant"),
     StatusEntry(S_spoke2, "Compliant"),
     StatusNotMap}

RECURSIVE SeqsUpTo(_, _)
SeqsUpTo(S, n) ==
    IF n = 0 THEN {<<>>}
    ELSE LET prev == SeqsUpTo(S, n - 1)
         IN  prev \cup {Append(p, e) : p \in {q \in prev : Len(q) = n - 1}, e \in S}

StatusLists == SeqsUpTo(StatusEntries, MaxClusters)

\* n bytes of filler
Pad(n) == [i \in 1..n |-> "x"]

\* a message longer than maxViolationMessageLen whose keyword lies past it
S_KeywordPastLimit ==
    <<"n","o","d","e","s"," ","[","w","o","r","k","e","r","-","1","]"," ">> \o Pad(maxViolationMessageLen) \o <<" ","n","o","t"," ","f","o","u","n","d">>

\* a policy name of 253 bytes, the longest a Kubernetes object name may be
S_longpol == Pad(253)

\* the status.details lists a policy object may carry
DetailMissing == Detail("map", S_T1, "NonCompliant", <<HistoryEntry(S_ScenarioA)>>)
DetailDrift ==
    Detail("map", S_T1, "NonCompliant",
           <<HistoryEntry(S_ScenarioB), HistoryEntry(S_ScenarioA)>>)
DetailCompliant == Detail("map", S_T1, "Compliant", <<HistoryEntry(S_ScenarioA)>>)
DetailNoHistory == Detail("map", S_T1, "NonCompliant", <<>>)
DetailHistoryNotMap == Detail("map", <<>>, "NonCompliant", <<HistoryNotMap>>)
DetailNoTemplateMeta ==
    Detail("absent", <<>>, "NonCompliant", <<HistoryEntry(S_ScenarioA)>>)
DetailTemplateMetaNotMap ==
    Detail("notmap", <<>>, "Compliant", <<HistoryEntry(S_ScenarioA)>>)

DetailLong == Detail("map", S_T1, "NonCompliant", <<HistoryEntry(S_KeywordPastLimit)>>)

DetailLists ==
    {<<>>,
     <<DetailMissing>>,
     <<DetailCompliant, DetailDrift>>,
     <<DetailNotMap, DetailNoHistory, DetailHistoryNotMap, DetailMissing>>,
     <<DetailMissing, DetailNoTemplateMeta>>,
     <<DetailTemplateMetaNotMap>>}

\* the status.details of the objects fetched for a policy: the long-named
\* policy carries the long message
DetailsOf(policyName) ==
    IF policyName = S_longpol THEN {<<DetailLong>>} ELSE DetailLists


(***************************************************************************)
(* extractDesiredStates: the index built from spec.policy-templates.  Later *)
(* entries overwrite earlier ones stored under the same key.               *)
(***************************************************************************)
\* a faulty variant: templates of every kind are indexed
extractDesiredStates_AnyKind(p) ==
    LET tmpl == p.templates
        Positions ==
            {pos \in UNION {{<<i, j>> : j \in 1..Len(tmpl[i].objectTemplates)} :
                               i \in 1..Len(tmpl)} :
                LET t == tmpl[pos[1]]
                IN  /\ t.isMap /\ t.hasObjDef
                    /\ t.hasSpec /\ t.isList
                    /\ t.objectTemplates[pos[2]].isMap
                    /\ t.objectTemplates[pos[2]].hasObjDef}
        DesiredAt(pos) == tmpl[pos[1]].objectTemplates[pos[2]].desired
        KeyAt(pos) ==
            LET desired == DesiredAt(pos)
            IN  StateKey(tmpl[pos[1]].templateName, desired.kind,
                         IF desired.hasMeta THEN desired.name ELSE <<>>)
        NotBefore(a, b) == a[1] > b[1] \/ (a[1] = b[1] /\ a[2] >= b[2])
        LastAt(key) ==
            CHOOSE a \in Positions :
                /\ KeyAt(a) = key
                /\ \A b \in Positions : KeyAt(b) = key => NotBefore(a, b)
    IN  [key \in {KeyAt(pos) : pos \in Positions} |-> DesiredAt(LastAt(key))]

extractDesiredStates(p) ==
    LET tmpl == p.templates
        Positions ==
            {pos \in UNION {{<<i, j>> : j \in 1..Len(tmpl[i].objectTemplates)} :
                               i \in 1..Len(tmpl)} :
                LET t == tmpl[pos[1]]
                IN  /\ t.isMap /\ t.hasObjDef
                    /\ t.kind = S_ConfigurationPolicy
                    /\ t.hasSpec /\ t.isList
                    /\ t.objectTemplates[pos[2]].isMap
                    /\ t.objectTemplates[pos[2]].hasObjDef}
        DesiredAt(pos) == tmpl[pos[1]].objectTemplates[pos[2]].desired
        KeyAt(pos) ==
            LET desired == DesiredAt(pos)
            IN  StateKey(tmpl[pos[1]].templateName, desired.kind,
                         IF desired.hasMeta THEN desired.name ELSE <<>>)
        NotBefore(a, b) == a[1] > b[1] \/ (a[1] = b[1] /\ a[2] >= b[2])
        LastAt(key) ==
            CHOOSE a \in Positions :
                /\ KeyAt(a) = key
                /\ \A b \in Positions : KeyAt(b) = key => NotBefore(a, b)
    IN  [key \in {KeyAt(pos) : pos \in Positions} |-> DesiredAt(LastAt(key))]

(***************************************************************************)
(* enrichClusterDiagnosisFromPolicy and enrichClusterDiagnosis.  The result *)
(* is the set of outcomes the call may have: the issue list of the cluster, *)
(* or a panic (raised by the unchecked type assertion on templateMeta).     *)
(***************************************************************************)
Truncate(m) ==
    IF Len(m) > maxViolationMessageLen
    THEN Slice(m, 0, maxViolationMessageLen) \o <<".", ".", ".">>
    ELSE m

\* the issues one history message may add (lines 275-286)
issueFromMessage(m, clusterName, templateName, desiredStates) ==
    {[issue EXCEPT !.Message = Truncate(issue.Message)] :
        issue \in classifyAndEnrich(m, clusterName, templateName, desiredStates)}

\* a faulty variant: the oldest history entry is used instead of the first
RECURSIVE enrichClusterDiagnosisFromPolicy_OldestEntry(_, _, _, _)
enrichClusterDiagnosisFromPolicy_OldestEntry(details, issues, clusterName, desiredStates) ==
    IF details = <<>> THEN {[panicked |-> FALSE, Issues |-> issues]}
    ELSE LET d == Head(details)
             Rest(iss) ==
                 enrichClusterDiagnosisFromPolicy_OldestEntry(Tail(details), iss,
                                                              clusterName, desiredStates)
         IN  IF ~d.isMap THEN Rest(issues)
             ELSE IF d.templateMeta # "map"
             THEN {[panicked |-> TRUE, Issues |-> issues]}
             ELSE IF d.compliant = complianceCompliant THEN Rest(issues)
             ELSE IF Len(d.history) = 0 THEN Rest(issues)
             ELSE IF ~d.history[Len(d.history)].isMap THEN Rest(issues)
             ELSE UNION {Rest(Append(issues, issue)) :
                            issue \in issueFromMessage(d.history[Len(d.history)].message,
                                                       clusterName, d.templateName,
                                                       desiredStates)}

RECURSIVE enrichClusterDiagnosisFromPolicy(_, _, _, _)
enrichClusterDiagnosisFromPolicy(details, issues, clusterName, desiredStates) ==
    IF details = <<>> THEN {[panicked |-> FALSE, Issues |-> issues]}
    ELSE LET d == Head(details)
             Rest(iss) ==
                 enrichClusterDiagnosisFromPolicy(Tail(details), iss, clusterName,
                                                  desiredStates)
         IN  IF ~d.isMap THEN Rest(issues)
             ELSE IF d.templateMeta # "map"
             THEN {[panicked |-> TRUE, Issues |-> issues]}
             ELSE IF d.compliant = complianceCompliant THEN Rest(issues)
             ELSE IF Len(d.history) = 0 THEN Rest(issues)
             ELSE IF ~d.history[1].isMap THEN Rest(issues)
             ELSE UNION {Rest(Append(issues, issue)) :
                            issue \in issueFromMessage(d.history[1].message, clusterName,
                                                       d.templateName, desiredStates)}

PropagatedName(rootNS, rootPolicy) == rootNS \o <<".">> \o rootPolicy

FetchFailedIssue(propagatedName, clusterName) ==
    [ViolationType |-> "unknown",
     TemplateName |-> <<>>,
     ResourceKind |-> <<>>,
     ResourceName |-> <<>>,
     ResourceNamespace |-> <<>>,
     Message |-> S_could_not_fetch \o propagatedName \o S_in_namespace_mid \o clusterName,
     DesiredState |-> <<>>,
     SuggestedToolCall |-> NoCall]

\* a faulty variant: a failed fetch leaves the cluster without any issue
enrichClusterDiagnosis_SilentFailure(fetchFailed, details, issues, rootNS, rootPolicy, clusterName, desiredStates) ==
    IF fetchFailed
    THEN {[panicked |-> FALSE, Issues |-> issues]}
    ELSE enrichClusterDiagnosisFromPolicy(details, issues, clusterName, desiredStates)

\* fetchFailed: inspector.GetResource returned an error; details: the
\* status.details of the propagated policy it returned otherwise
enrichClusterDiagnosis(fetchFailed, details, issues, rootNS, rootPolicy, clusterName, desiredStates) ==
    IF fetchFailed
    THEN {[panicked |-> FALSE,
           Issues |-> Append(issues,
                             FetchFailedIssue(PropagatedName(rootNS, rootPolicy),
                                              clusterName))]}
    ELSE enrichClusterDiagnosisFromPolicy(details, issues, clusterName, desiredStates)

(***************************************************************************)
(* resolvePolicy: direct get when a namespace is given, else (or on a      *)
(* failed get) the first policy of the all-namespaces list with that name.  *)
(* hubPolicies is the list the hub would return; getFailed and listFailed   *)
(* say whether the inspector call returns an error.                         *)
(***************************************************************************)
\* one inspector call: what was asked, whether the context was canceled when
\* it was issued, and whether it returned an error
Fetch(op, name, namespace, sawCancel, failed) ==
    [op |-> op, name |-> name, namespace |-> namespace, sawCancel |-> sawCancel,
     failed |-> failed, details |-> <<>>]

\* a faulty variant: the propagated policy is probed with a dry-run patch
PropagatedFetch_DryRunPatch(name, namespace, sawCancel, failed, details) ==
    [op |-> "dry_run_patch", name |-> name, namespace |-> namespace,
     sawCancel |-> sawCancel, failed |-> failed,
     details |-> IF failed THEN <<>> ELSE details]

\* the GetResource call for a propagated policy, with the status.details of
\* the object it returned when it did not fail
PropagatedFetch(name, namespace, sawCancel, failed, details) ==
    [Fetch("get", name, namespace, sawCancel, failed)
        EXCEPT !.details = IF failed THEN <<>> ELSE details]

\* a faulty variant: a policy found by the list keeps the namespace asked for
resolvePolicy_GivenNamespace(hubPolicies, name, namespace, getFailed, listFailed, isCanceled) ==
    LET direct == {i \in 1..Len(hubPolicies) :
                      hubPolicies[i].name = name /\ hubPolicies[i].namespace = namespace}
        byName == {i \in 1..Len(hubPolicies) : hubPolicies[i].name = name}
        getCall == IF namespace # <<>>
                   THEN <<Fetch("get", name, namespace, isCanceled,
                                getFailed \/ direct = {})>>
                   ELSE <<>>
        listCall == <<Fetch("list", <<>>, <<>>, isCanceled, listFailed)>>
    IN  IF namespace # <<>> /\ ~getFailed /\ direct # {}
        THEN [policy |-> <<hubPolicies[MinOf(direct)]>>, namespace |-> namespace,
              err |-> "", errArgs |-> <<>>, calls |-> getCall]
        ELSE IF listFailed
        THEN [policy |-> <<>>, namespace |-> <<>>,
              err |-> "failed to list policies across namespaces", errArgs |-> <<>>,
              calls |-> getCall \o listCall]
        ELSE IF byName # {}
        THEN [policy |-> <<hubPolicies[MinOf(byName)]>>,
              namespace |-> namespace,
              err |-> "", errArgs |-> <<>>, calls |-> getCall \o listCall]
        ELSE [policy |-> <<>>, namespace |-> <<>>,
              err |-> IF namespace # <<>>
                      THEN "policy not found in namespace or any other namespace"
                      ELSE "policy not found in any namespace",
              errArgs |-> IF namespace # <<>> THEN <<name, namespace>> ELSE <<name>>,
              calls |-> getCall \o listCall]

resolvePolicy(hubPolicies, name, namespace, getFailed, listFailed, isCanceled) ==
    LET direct == {i \in 1..Len(hubPolicies) :
                      hubPolicies[i].name = name /\ hubPolicies[i].namespace = namespace}
        byName == {i \in 1..Len(hubPolicies) : hubPolicies[i].name = name}
        getCall == IF namespace # <<>>
                   THEN <<Fetch("get", name, namespace, isCanceled,
                                getFailed \/ direct = {})>>
                   ELSE <<>>
        listCall == <<Fetch("list", <<>>, <<>>, isCanceled, listFailed)>>
    IN  IF namespace # <<>> /\ ~getFailed /\ direct # {}
        THEN [policy |-> <<hubPolicies[MinOf(direct)]>>, namespace |-> namespace,
              err |-> "", errArgs |-> <<>>, calls |-> getCall]
        ELSE IF listFailed
        THEN [policy |-> <<>>, namespace |-> <<>>,
              err |-> "failed to list policies across namespaces", errArgs |-> <<>>,
              calls |-> getCall \o listCall]
        ELSE IF byName # {}
        THEN [policy |-> <<hubPolicies[MinOf(byName)]>>,
              namespace |-> hubPolicies[MinOf(byName)].namespace,
              err |-> "", errArgs |-> <<>>, calls |-> getCall \o listCall]
        ELSE [policy |-> <<>>, namespace |-> <<>>,
              err |-> IF namespace # <<>>
                      THEN "policy not found in namespace or any other namespace"
                      ELSE "policy not found in any namespace",
              errArgs |-> IF namespace # <<>> THEN <<name, namespace>> ELSE <<name>>,
              calls |-> getCall \o listCall]

(***************************************************************************)
(* inspect_acm_policy: classifyViolationMessage, parseResourceFromMessage, *)
(* parsePolicyInspection and the body of enrichViolationsFromPropagated.    *)
(***************************************************************************)
classifyViolationMessage(m) ==
    LET lower == ToLower(m)
    IN  IF Contains(lower, S_not_found) THEN "missing"
        ELSE IF Contains(lower, S_not_as_specified) THEN "drift"
        ELSE IF Contains(lower, <<"v", "i", "o", "l", "a", "t", "i", "o", "n">>)
        THEN "violation"
        ELSE "unknown"

parseResourceFromMessage(m) ==
    LET none == [kind |-> <<>>, name |-> <<>>, ns |-> <<>>]
    IN  IF Len(m) < 2 \/ m[1] # "[" THEN none
        ELSE LET closeBracket == Index(m, <<"]">>)
             IN  IF closeBracket < 0 THEN none
                 ELSE LET rest == TrimSpace(SliceFrom(m, closeBracket + 1))
                          i == IndexAny(rest, SpaceTab)
                          nsIdx == Index(rest, S_in_namespace)
                          after == SliceFrom(rest, nsIdx + Len(S_in_namespace))
                          spIdx == IndexAny(after, SpaceTab)
                      IN  [kind |-> Slice(m, 1, closeBracket),
                           name |-> IF i > 0 THEN Slice(rest, 0, i)
                                    ELSE IF rest # <<>> THEN rest ELSE <<>>,
                           ns |-> IF nsIdx >= 0
                                  THEN IF spIdx > 0 THEN Slice(after, 0, spIdx) ELSE after
                                  ELSE <<>>]

\* the violation built from the first history entry of one detail
inspectViolation(m, templateName, clusterName) ==
    LET r == parseResourceFromMessage(m)
    IN  [TemplateName |-> templateName,
         ClusterName |-> clusterName,
         ViolationType |-> classifyViolationMessage(m),
         ResourceKind |-> r.kind,
         ResourceName |-> r.name,
         Namespace |-> r.ns,
         Message |-> Truncate(m)]

\* the status.details loop shared by parsePolicyInspection (clusterName
\* empty) and enrichViolationsFromPropagated
RECURSIVE inspectDetails(_, _, _)
inspectDetails(details, found, clusterName) ==
    IF details = <<>> THEN [panicked |-> FALSE, Violations |-> found]
    ELSE LET d == Head(details)
         IN  IF ~d.isMap THEN inspectDetails(Tail(details), found, clusterName)
             ELSE IF d.templateMeta # "map"
             THEN [panicked |-> TRUE, Violations |-> found]
             ELSE IF d.compliant = complianceCompliant
                     \/ Len(d.history) = 0
                     \/ ~d.history[1].isMap
             THEN inspectDetails(Tail(details), found, clusterName)
             ELSE inspectDetails(Tail(details),
                                 Append(found,
                                        inspectViolation(d.history[1].message,
                                                         d.templateName, clusterName)),
                                 clusterName)

\* the clusters status.status names, after the cluster filter
RECURSIVE affectedFromStatus(_, _)
affectedFromStatus(statusList, filter) ==
    IF statusList = <<>> THEN <<>>
    ELSE LET s == Head(statusList)
             rest == affectedFromStatus(Tail(statusList), filter)
         IN  IF ~s.isMap \/ (filter # <<>> /\ s.clustername # filter) THEN rest
             ELSE <<[ClusterName |-> s.clustername, ComplianceState |-> s.compliant]>>
                  \o rest

\* result.Templates: name and kind of every policy-templates entry
RECURSIVE templateInfos(_)
templateInfos(tmpl) ==
    IF tmpl = <<>> THEN <<>>
    ELSE LET t == Head(tmpl)
         IN  IF ~t.isMap THEN templateInfos(Tail(tmpl))
             ELSE <<[Name |-> IF t.hasObjDef THEN t.templateName ELSE <<>>,
                     Kind |-> IF t.hasObjDef THEN t.kind ELSE <<>>]>>
                  \o templateInfos(Tail(tmpl))

parsePolicyInspection(p, filter, details) ==
    LET fromStatus == affectedFromStatus(p.statusList, filter)
        affected == IF Len(fromStatus) = 0 /\ p.namespace # <<>>
                    THEN <<[ClusterName |-> p.namespace, ComplianceState |-> p.compliant]>>
                    ELSE fromStatus
        own == inspectDetails(details, <<>>, <<>>)
    IN  [panicked |-> own.panicked,
         ComplianceState |-> p.compliant,
         Templates |-> templateInfos(p.templates),
         AffectedClusters |-> affected,
         Violations |-> own.Violations]

(***************************************************************************)
(* What a handler returns.  A recovered panic leaves the handler's unnamed *)
(* results at their zero values: a nil *mcp.CallToolResult and a nil error. *)
(***************************************************************************)
\* error is the text of an error result and args the operands formatted into it
NoResult ==
    [returned |-> "none", IsError |-> FALSE, error |-> "", args |-> <<>>, body |-> <<>>]
newToolResultError(e) ==
    [returned |-> "result", IsError |-> TRUE, error |-> e, args |-> <<>>, body |-> <<>>]
newToolResultText(data) ==
    [returned |-> "result", IsError |-> FALSE, error |-> "", args |-> <<>>,
     body |-> <<data>>]
RecoveredPanic ==
    [returned |-> "nil", IsError |-> FALSE, error |-> "", args |-> <<>>, body |-> <<>>]

NoPolicy == Policy(<<>>, <<>>, "", <<>>, <<>>)

RECURSIVE SumIssues(_)
SumIssues(cs) == IF cs = <<>> THEN 0 ELSE Len(Head(cs).Issues) + SumIssues(Tail(cs))

\* the document buildDiagnosis returns, once diag.Clusters is complete
Diagnosis(cs) ==
    [policy_name |-> input.PolicyName,
     namespace |-> resolvedNS,
     compliance_state |-> policy.compliant,
     clusters |-> cs,
     summary |-> [issues |-> SumIssues(cs), clusters |-> Len(cs)]]

\* the document HandleInspectACMPolicy returns
Inspection(vs) ==
    [policy_name |-> input.PolicyName,
     namespace |-> resolvedNS,
     compliance_state |-> policy.compliant,
     affected_clusters |-> clusters,
     templates |-> templateInfos(policy.templates),
     violations |-> vs,
     next_step |-> IF Len(vs) > 0 /\ Len(clusters) > 0
                   THEN <<clusters[1].ClusterName>> ELSE <<>>]

(***************************************************************************)
(* Initial states.                                                          *)
(***************************************************************************)
EmptyIndex == <<>>

IndexA == extractDesiredStates(Policy(S_pol, S_ztp, "NonCompliant", TemplatesA, <<>>))
IndexB == extractDesiredStates(Policy(S_pol, S_ztp, "NonCompliant", TemplatesB, <<>>))

(***************************************************************************)
(* Inputs for the desired-state lookup: an index is extracted from a policy *)
(* whose templates T1 and T2 hold at most MaxFragments object-templates     *)
(* taken from a pool.                                                       *)
(***************************************************************************)
FragmentPool ==
    << [template |-> S_T1, frag |-> FragNode],
       [template |-> S_T1, frag |-> Fragment(S_Node, <<"w","o","r","k","e","r","-","2">>, <<>>, 4)],
       [template |-> S_T1, frag |-> Fragment(<<"n","o","d","e">>, S_worker_1, <<>>, 5)],
       [template |-> S_T1, frag |-> Fragment(<<"B","o","x","e","s">>, <<"b","1">>, <<>>, 6)],
       [template |-> S_T1, frag |-> Fragment(<<"B","o","x">>, <<"b","1">>, <<>>, 7)],
       [template |-> S_T1, frag |-> FragSubscription],
       [template |-> S_T1, frag |-> Fragment(S_Subscription, S_web_terminal, <<"w","t","-","n","s">>, 8)],
       [template |-> S_T1, frag |-> Fragment(S_Subscription, S_web_terminal, <<>>, 9)],
       [template |-> S_T1, frag |-> Fragment(S_Subscription, <<>>, S_ztp, 10)],
       [template |-> S_T1, frag |-> FragOperator],
       [template |-> S_T2, frag |-> Fragment(S_Node, S_worker_1, <<>>, 11)] >>

\* the index extractDesiredStates builds from the chosen pool entries
IndexOfPool(chosen) ==
    LET Of(t) == SelectSeq(FragmentPool, LAMBDA e : e \in chosen /\ e.template = t)
        Templates(t) == [i \in 1..Len(Of(t)) |-> ObjectTemplate(Of(t)[i].frag)]
    IN  extractDesiredStates(
            Policy(S_pol, S_ztp, "NonCompliant",
                   <<PolicyTemplate(S_T1, S_ConfigurationPolicy, Templates(S_T1)),
                     PolicyTemplate(S_T2, S_ConfigurationPolicy, Templates(S_T2))>>,
                   <<>>))

MatchIndexes ==
    {IndexOfPool(chosen) :
        chosen \in {c \in SUBSET {FragmentPool[i] : i \in 1..Len(FragmentPool)} :
                       Cardinality(c) <= MaxFragments}}

\* violation messages of template T1 looked up in those indexes
MatchMessages ==
    {S_ScenarioA, S_NodesDrift, S_ScenarioB, S_OperatorsDrift,
     <<"N","o","d","e"," ","[","w","o","r","k","e","r","-","1","]"," ","n","o","t"," ","f","o","u","n","d">>,
     <<"o","p","e","r","a","t","o","r","s"," ","[","w","e","b","-","t","e","r","m","i","n","a","l","]"," ","i","n"," ","n","a","m","e","s","p","a","c","e"," ","n","s","1"," ","n","o","t"," ","a","s"," ","s","p","e","c","i","f","i","e","d">>,
     <<"b","o","x"," ","[","b","1","]"," ","n","o","t"," ","f","o","u","n","d">>,
     <<"b","o","x","e","s"," ","[","b","1","]"," ","n","o","t"," ","f","o","u","n","d">>,
     <<"p","o","d","s"," ","[","p","1","]"," ","n","o","t"," ","f","o","u","n","d">>,
     <<"s","u","b","s","c","r","i","p","t","i","o","n","s"," ","[","m","y","-","o","p","e","r","a","t","o","r","]"," ","n","o","t"," ","f","o","u","n","d">>,
     <<"o","p","e","r","a","t","o","r","s"," ","[",".","x","]"," ","n","o","t"," ","f","o","u","n","d">>}

\* the pieces free-form messages are concatenated from
C_nodes == <<"n","o","d","e","s"," ">>
C_Subscription == <<"S","u","b","s","c","r","i","p","t","i","o","n"," ">>
C_w1_bracketed == <<"[","w","1","]"," ">>
C_Subscription_bracketed == <<"[","S","u","b","s","c","r","i","p","t","i","o","n","]"," ">>

Chunks ==
    {C_nodes, C_Subscription, C_w1_bracketed, C_Subscription_bracketed,
     S_in_namespace, <<",">>, S_Not_Found, S_not_as_specified, S_installplan,
     <<"[">>, <<" ">>}

RECURSIVE Concats(_)
Concats(n) ==
    IF n = 0 THEN {<<>>}
    ELSE LET prev == Concats(n - 1)
         IN  prev \cup {p \o c : p \in prev, c \in Chunks}

\* a Go string is a sequence of bytes: a byte above 0x7F is written by its two
\* hexadecimal digits, so these are the two bytes of the UTF-8 encoding of
\* U+00E9
S_e_acute == <<"C3", "A9">>

\* messages around maxViolationMessageLen bytes: the keyword past the limit,
\* exactly the limit, one byte more, and a two-byte character across the limit
LongMessages ==
    LET head == <<"n","o","d","e","s"," ","[","w","o","r","k","e","r","-","1","]"," ","n","o","t"," ","f","o","u","n","d"," ">>
        fill == maxViolationMessageLen - Len(head)
    IN  {S_KeywordPastLimit,
         head \o Pad(fill),
         head \o Pad(fill + 1),
         head \o Pad(fill - 1) \o S_e_acute,
         head \o Pad(fill - 1) \o S_e_acute \o Pad(2)}

\* messages with "violation - ": at the start, after a prefix with and
\* without a classification keyword, twice, and at the very end
PrefixedMessages ==
    LET prefixes == {<<>>, <<"N","o","n","C","o","m","p","l","i","a","n","t",";"," ">>, <<"n","o","t"," ","f","o","u","n","d",";"," ">>}
        twice == <<"p","o","d","s"," ","[","p","1","]"," ">> \o S_violation_dash \o S_ScenarioA
        drift == <<"n","o","d","e","s"," ","[","w","o","r","k","e","r","-","1","]"," ","f","o","u","n","d"," ","b","u","t"," ">> \o S_not_as_specified
        bodies == {S_ScenarioA, drift, twice, <<>>}
    IN  {p \o S_violation_dash \o m : p \in prefixes, m \in bodies}

ScenarioMessages ==
    {S_ScenarioA, S_ScenarioB, S_OperatorsDrift, S_NodesDrift, S_Prefixed,
     S_InstallPlanStuck} \cup LongMessages \cup PrefixedMessages

RequestIdle ==
    /\ input = [PolicyName |-> <<>>, Namespace |-> <<>>, Cluster |-> <<>>]
    /\ hub = <<>>
    /\ pc = "entry"
    /\ canceled = FALSE
    /\ canceledAtEntry = FALSE
    /\ requestIDCounter = 0
    /\ policy = NoPolicy
    /\ resolvedNS = <<>>
    /\ idx = 0
    /\ clusters = <<>>
    /\ violations = <<>>
    /\ fetches = <<>>
    /\ panicked = FALSE
    /\ result = NoResult

\* one parseViolationResource call and one classifyAndEnrich call on a drawn message
InitMsg ==
    /\ tool = "classify"
    /\ \/ msg \in Concats(MaxChunks) /\ msgIndex = EmptyIndex
       \/ msg \in ScenarioMessages /\ msgIndex \in {IndexA, IndexB}
    /\ msgParsed = <<>>
    /\ msgIssue = <<>>
    /\ RequestIdle
    /\ calls = <<>>

\* the policy-templates entries an indexed policy is made of: two templates
\* defining the same kind and name, a template defining it twice, other
\* template kinds, and the malformed shapes extractDesiredStates passes over
TemplatePool ==
    LET nodeOf(id) == Fragment(S_Node, S_worker_1, <<>>, id)
        t1 == PolicyTemplate(S_T1, S_ConfigurationPolicy, <<ObjectTemplate(FragNode)>>)
    IN  {t1,
         PolicyTemplate(S_T2, S_ConfigurationPolicy, <<ObjectTemplate(nodeOf(11))>>),
         PolicyTemplate(S_T1, S_ConfigurationPolicy,
                        <<ObjectTemplate(nodeOf(12)), ObjectTemplateNoDef,
                          ObjectTemplate(nodeOf(13)), ObjectTemplate(FragSubscription)>>),
         PolicyTemplate(S_T2, <<"C", "e", "r", "t">>, <<ObjectTemplate(nodeOf(14))>>),
         PolicyTemplate(S_T2, ToLower(S_ConfigurationPolicy),
                        <<ObjectTemplate(nodeOf(15))>>),
         PolicyTemplate(S_T1, S_ConfigurationPolicy,
                        <<ObjectTemplate([nodeOf(16) EXCEPT !.hasMeta = FALSE,
                                                            !.name = <<>>]),
                          [ObjectTemplate(nodeOf(17)) EXCEPT !.isMap = FALSE]>>),
         [t1 EXCEPT !.isMap = FALSE],
         [t1 EXCEPT !.hasObjDef = FALSE],
         [t1 EXCEPT !.hasSpec = FALSE],
         [t1 EXCEPT !.isList = FALSE]}

IndexPolicies ==
    {Policy(S_pol, S_ztp, "NonCompliant", templates, <<>>) :
        templates \in SeqsUpTo(TemplatePool, MaxTemplates)}

\* extractDesiredStates on a drawn policy, then the two calls on a message of
\* template T1 with the index it built
InitIndex ==
    /\ tool = "extract"
    /\ policy \in IndexPolicies
    /\ msg \in {S_ScenarioA, S_ScenarioB}
    /\ msgIndex = EmptyIndex
    /\ msgParsed = <<>>
    /\ msgIssue = <<>>
    /\ input = [PolicyName |-> <<>>, Namespace |-> <<>>, Cluster |-> <<>>]
    /\ hub = <<>>
    /\ pc = "entry"
    /\ canceled = FALSE
    /\ canceledAtEntry = FALSE
    /\ requestIDCounter = 0
    /\ resolvedNS = <<>>
    /\ idx = 0
    /\ clusters = <<>>
    /\ violations = <<>>
    /\ fetches = <<>>
    /\ panicked = FALSE
    /\ result = NoResult
    /\ calls = <<>>

\* the same two calls on a violation message and an index from the pool
InitMatch ==
    /\ tool = "classify"
    /\ msg \in MatchMessages
    /\ msgIndex \in MatchIndexes
    /\ msgParsed = <<>>
    /\ msgIssue = <<>>
    /\ RequestIdle
    /\ calls = <<>>

HubChoices ==
    LET targets == {Policy(S_pol, S_ztp, c, TemplatesB, sl) :
                        c \in {"Compliant", "NonCompliant"}, sl \in StatusLists}
        decoy == Policy(S_pol, S_sno_abi, "NonCompliant", TemplatesA, <<>>)
        long == Policy(S_longpol, S_ztp, "NonCompliant", TemplatesA,
                       <<StatusEntry(S_spoke1, "NonCompliant")>>)
    IN  {<<>>, <<decoy, Policy(S_pol, S_ztp, "NonCompliant", TemplatesB, <<>>)>>, <<long>>}
        \cup {<<t>> : t \in targets}

\* one diagnose_acm_policy request for a non-compliant policy that is found
\* in the namespace given, over every status.status list
InitDiagnose ==
    /\ tool = "diagnose"
    /\ msg = <<>> /\ msgIndex = EmptyIndex /\ msgParsed = <<>> /\ msgIssue = <<>>
    /\ input \in [PolicyName : {S_pol}, Namespace : {S_ztp}, Cluster : {<<>>, S_spoke1}]
    /\ hub \in {<<Policy(S_pol, S_ztp, "NonCompliant", TemplatesB, sl)>> :
                    sl \in StatusLists}
    /\ pc = "entry"
    /\ canceled = FALSE
    /\ canceledAtEntry = FALSE
    /\ requestIDCounter = 0
    /\ policy = NoPolicy
    /\ resolvedNS = <<>>
    /\ idx = 0
    /\ clusters = <<>>
    /\ violations = <<>>
    /\ fetches = <<>>
    /\ panicked = FALSE
    /\ result = NoResult
    /\ calls = <<>>

\* one diagnose_acm_policy or inspect_acm_policy request
Init ==
    /\ tool \in {"diagnose", "inspect"}
    /\ msg = <<>> /\ msgIndex = EmptyIndex /\ msgParsed = <<>> /\ msgIssue = <<>>
    /\ \/ /\ input = [PolicyName |-> <<>>, Namespace |-> <<>>, Cluster |-> <<>>]
          /\ hub = <<>>
       \/ /\ input \in [PolicyName : {S_pol, S_longpol},
                        Namespace : {<<>>, S_ztp},
                        Cluster : {<<>>, S_spoke1}]
          /\ hub \in HubChoices
    /\ pc = "entry"
    /\ canceled = FALSE
    /\ canceledAtEntry = FALSE
    /\ requestIDCounter = 0
    /\ policy = NoPolicy
    /\ resolvedNS = <<>>
    /\ idx = 0
    /\ clusters = <<>>
    /\ violations = <<>>
    /\ fetches = <<>>
    /\ panicked = FALSE
    /\ result = NoResult
    /\ calls = <<>>

(***************************************************************************)
(* Actions.                                                                 *)
(***************************************************************************)
\* classifyAndEnrich and the truncation that follows it, on the drawn message
ClassifyMsg ==
    /\ tool = "classify"
    /\ msgParsed # <<>>
    /\ msgIssue = <<>>
    /\ \E issue \in issueFromMessage(msg, S_spoke1, S_T1, msgIndex) :
          msgIssue' = <<issue>>
    /\ UNCHANGED <<msg, msgIndex, msgParsed>>
    /\ UNCHANGED <<reqVars, calls>>

\* extractDesiredStates on the drawn policy
ExtractIndex ==
    /\ tool = "extract"
    /\ msgIndex' = extractDesiredStates(policy)
    /\ tool' = "classify"
    /\ UNCHANGED <<msg, msgParsed, msgIssue>>
    /\ UNCHANGED <<input, hub, pc, canceled, canceledAtEntry, requestIDCounter,
                   policy, resolvedNS, idx, clusters, violations, fetches, panicked,
                   result, calls>>

\* parseViolationResource on the drawn message
ParseMsg ==
    /\ tool = "classify"
    /\ msgParsed = <<>>
    /\ msgParsed' = <<parseViolationResource(msg)>>
    /\ UNCHANGED <<msg, msgIndex, msgIssue>>
    /\ UNCHANGED <<reqVars, calls>>

\* the caller cancels the request's context
Cancel ==
    /\ tool # "classify"
    /\ pc # "done"
    /\ ~canceled
    /\ canceled' = TRUE
    /\ UNCHANGED <<tool, input, hub, pc, canceledAtEntry, requestIDCounter, policy,
                   resolvedNS, idx, clusters, violations, fetches, panicked, result>>
    /\ UNCHANGED <<msgVars, calls>>

\* an inspector call made on a canceled context returns an error; otherwise
\* it may succeed or fail
MayFail == IF canceled THEN {TRUE} ELSE BOOLEAN

\* both handlers up to resolvePolicy: the request is rejected, or the hub
\* cannot be reached, or the policy is not resolved
HandleRejected ==
    /\ tool # "classify"
    /\ pc = "entry"
    /\ requestIDCounter' = requestIDCounter + 1
    /\ canceledAtEntry' = canceled
    /\ pc' = "done"
    /\ \/ /\ input.PolicyName = <<>>
          /\ result' = newToolResultError("'policy_name' is required")
          /\ UNCHANGED fetches
       \/ /\ input.PolicyName # <<>>
          /\ result' = newToolResultError("Failed to resolve hub kubeconfig")
          /\ UNCHANGED fetches
       \/ /\ input.PolicyName # <<>>
          /\ \E getFailed \in MayFail, listFailed \in MayFail :
                LET r == resolvePolicy(hub, input.PolicyName, input.Namespace,
                                       getFailed, listFailed, canceled)
                IN  /\ r.err # ""
                    /\ result' = [newToolResultError(r.err) EXCEPT !.args = r.errArgs]
                    /\ fetches' = r.calls
    /\ UNCHANGED <<tool, input, hub, canceled, policy, resolvedNS, idx, clusters,
                   violations, panicked>>
    /\ UNCHANGED <<msgVars, calls>>

\* HandleDiagnoseACMPolicy up to the status.status loop of buildDiagnosis
DiagnoseEntry ==
    /\ tool = "diagnose"
    /\ pc = "entry"
    /\ input.PolicyName # <<>>
    /\ requestIDCounter' = requestIDCounter + 1
    /\ canceledAtEntry' = canceled
    /\ \E getFailed \in MayFail, listFailed \in MayFail :
          LET r == resolvePolicy(hub, input.PolicyName, input.Namespace,
                                 getFailed, listFailed, canceled)
          IN  /\ r.err = ""
              /\ policy' = r.policy[1]
              /\ resolvedNS' = r.namespace
              /\ fetches' = r.calls
    /\ pc' = "loop"
    /\ UNCHANGED <<tool, input, hub, canceled, idx, clusters, violations, panicked,
                   result>>
    /\ UNCHANGED <<msgVars, calls>>

\* one status.status entry that buildDiagnosis passes over
DiagnoseSkip ==
    /\ tool = "diagnose"
    /\ pc = "loop"
    /\ idx < Len(policy.statusList)
    /\ LET s == policy.statusList[idx + 1]
       IN  \/ ~s.isMap
           \/ (input.Cluster # <<>> /\ s.clustername # input.Cluster)
           \/ s.compliant = complianceCompliant
    /\ idx' = idx + 1
    /\ UNCHANGED <<tool, input, hub, pc, canceled, canceledAtEntry, requestIDCounter,
                   policy, resolvedNS, clusters, violations, fetches, panicked, result>>
    /\ UNCHANGED <<msgVars, calls>>

\* a faulty variant: a cluster's issue list starts from the previous cluster's
DiagnoseCluster_SharedIssues ==
    /\ tool = "diagnose"
    /\ pc = "loop"
    /\ idx < Len(policy.statusList)
    /\ LET s == policy.statusList[idx + 1]
       IN  /\ s.isMap
           /\ ~(input.Cluster # <<>> /\ s.clustername # input.Cluster)
           /\ s.compliant # complianceCompliant
           /\ \E fetchFailed \in MayFail, details \in DetailsOf(input.PolicyName) :
              \E out \in enrichClusterDiagnosis(fetchFailed, details,
                                                IF clusters = <<>> THEN <<>>
                                                ELSE clusters[Len(clusters)].Issues,
                                                resolvedNS,
                                                input.PolicyName, s.clustername,
                                                extractDesiredStates(policy)) :
               /\ fetches' = Append(fetches,
                                    PropagatedFetch(
                                          PropagatedName(resolvedNS, input.PolicyName),
                                          s.clustername, canceled, fetchFailed,
                                          details))
               /\ panicked' = out.panicked
               /\ IF out.panicked
                  THEN /\ pc' = "done"
                       /\ result' = RecoveredPanic
                       /\ UNCHANGED <<idx, clusters>>
                  ELSE /\ clusters' = Append(clusters,
                                             [ClusterName |-> s.clustername,
                                              ComplianceState |-> s.compliant,
                                              Issues |-> out.Issues])
                       /\ idx' = idx + 1
                       /\ UNCHANGED <<pc, result>>
    /\ UNCHANGED <<tool, input, hub, canceled, canceledAtEntry, requestIDCounter,
                   policy, resolvedNS, violations>>
    /\ UNCHANGED <<msgVars, calls>>

\* one affected cluster of buildDiagnosis: the propagated policy is fetched
\* and the cluster's diagnosis appended; a panic ends the handler
DiagnoseCluster ==
    /\ tool = "diagnose"
    /\ pc = "loop"
    /\ idx < Len(policy.statusList)
    /\ LET s == policy.statusList[idx + 1]
       IN  /\ s.isMap
           /\ ~(input.Cluster # <<>> /\ s.clustername # input.Cluster)
           /\ s.compliant # complianceCompliant
           /\ \E fetchFailed \in MayFail, details \in DetailsOf(input.PolicyName) :
              \E out \in enrichClusterDiagnosis(fetchFailed, details, <<>>, resolvedNS,
                                                input.PolicyName, s.clustername,
                                                extractDesiredStates(policy)) :
               /\ fetches' = Append(fetches,
                                    PropagatedFetch(
                                          PropagatedName(resolvedNS, input.PolicyName),
                                          s.clustername, canceled, fetchFailed,
                                          details))
               /\ panicked' = out.panicked
               /\ IF out.panicked
                  THEN /\ pc' = "done"
                       /\ result' = RecoveredPanic
                       /\ UNCHANGED <<idx, clusters>>
                  ELSE /\ clusters' = Append(clusters,
                                             [ClusterName |-> s.clustername,
                                              ComplianceState |-> s.compliant,
                                              Issues |-> out.Issues])
                       /\ idx' = idx + 1
                       /\ UNCHANGED <<pc, result>>
    /\ UNCHANGED <<tool, input, hub, canceled, canceledAtEntry, requestIDCounter,
                   policy, resolvedNS, violations>>
    /\ UNCHANGED <<msgVars, calls>>

\* a faulty variant: the propagated-policy case is lost
DiagnoseFinish_NoPropagatedCase ==
    /\ tool = "diagnose"
    /\ pc = "loop"
    /\ idx = Len(policy.statusList)
    /\ pc' = "done"
    /\ result' = newToolResultText(Diagnosis(clusters))
    /\ UNCHANGED <<tool, input, hub, canceled, canceledAtEntry, requestIDCounter,
                   policy, resolvedNS, idx, clusters, violations, fetches, panicked>>
    /\ UNCHANGED <<msgVars, calls>>

\* the end of buildDiagnosis (the propagated-policy case and the summary) and
\* of HandleDiagnoseACMPolicy
DiagnoseFinish ==
    /\ tool = "diagnose"
    /\ pc = "loop"
    /\ idx = Len(policy.statusList)
    /\ pc' = "done"
    /\ IF Len(clusters) = 0 /\ policy.compliant # complianceCompliant
          /\ policy.namespace # <<>>
       THEN \E details \in DetailsOf(input.PolicyName) :
            \E out \in enrichClusterDiagnosisFromPolicy(details, <<>>, policy.namespace,
                                                        extractDesiredStates(policy)) :
               /\ panicked' = out.panicked
               /\ IF out.panicked
                  THEN /\ result' = RecoveredPanic
                       /\ UNCHANGED clusters
                  ELSE /\ clusters' = <<[ClusterName |-> policy.namespace,
                                         ComplianceState |-> policy.compliant,
                                         Issues |-> out.Issues]>>
                       /\ result' = newToolResultText(Diagnosis(clusters'))
       ELSE /\ result' = newToolResultText(Diagnosis(clusters))
            /\ UNCHANGED <<clusters, panicked>>
    /\ UNCHANGED <<tool, input, hub, canceled, canceledAtEntry, requestIDCounter,
                   policy, resolvedNS, idx, violations, fetches>>
    /\ UNCHANGED <<msgVars, calls>>

\* HandleInspectACMPolicy up to enrichViolationsFromPropagated
InspectEntry ==
    /\ tool = "inspect"
    /\ pc = "entry"
    /\ input.PolicyName # <<>>
    /\ requestIDCounter' = requestIDCounter + 1
    /\ canceledAtEntry' = canceled
    /\ \E getFailed \in MayFail, listFailed \in MayFail, details \in DetailsOf(input.PolicyName) :
          LET r == resolvePolicy(hub, input.PolicyName, input.Namespace,
                                 getFailed, listFailed, canceled)
              parsed == parsePolicyInspection(r.policy[1], input.Cluster, details)
          IN  /\ r.err = ""
              /\ policy' = r.policy[1]
              /\ resolvedNS' = r.namespace
              /\ fetches' = r.calls
              /\ panicked' = parsed.panicked
              /\ IF parsed.panicked
                 THEN /\ pc' = "done"
                      /\ result' = RecoveredPanic
                      /\ UNCHANGED <<clusters, violations>>
                 ELSE /\ pc' = "loop"
                      /\ clusters' = parsed.AffectedClusters
                      /\ violations' = parsed.Violations
                      /\ UNCHANGED result
    /\ UNCHANGED <<tool, input, hub, canceled, idx>>
    /\ UNCHANGED <<msgVars, calls>>

\* one cluster of enrichViolationsFromPropagated
InspectCluster ==
    /\ tool = "inspect"
    /\ pc = "loop"
    /\ idx < Len(clusters)
    /\ LET cluster == clusters[idx + 1]
       IN  IF cluster.ComplianceState = complianceCompliant
           THEN /\ idx' = idx + 1
                /\ UNCHANGED <<pc, violations, fetches, panicked, result>>
           ELSE \E fetchFailed \in MayFail, details \in DetailsOf(input.PolicyName) :
                   LET out == inspectDetails(details, violations, cluster.ClusterName)
                   IN  /\ fetches' = Append(fetches,
                                            PropagatedFetch(
                                                  PropagatedName(resolvedNS,
                                                                 input.PolicyName),
                                                  cluster.ClusterName, canceled,
                                                  fetchFailed, details))
                       /\ IF fetchFailed
                          THEN /\ idx' = idx + 1
                               /\ UNCHANGED <<pc, violations, panicked, result>>
                          ELSE IF out.panicked
                          THEN /\ pc' = "done"
                               /\ panicked' = TRUE
                               /\ result' = RecoveredPanic
                               /\ UNCHANGED <<idx, violations>>
                          ELSE /\ idx' = idx + 1
                               /\ violations' = out.Violations
                               /\ UNCHANGED <<pc, panicked, result>>
    /\ UNCHANGED <<tool, input, hub, canceled, canceledAtEntry, requestIDCounter,
                   policy, resolvedNS, clusters>>
    /\ UNCHANGED <<msgVars, calls>>

\* the end of HandleInspectACMPolicy
InspectFinish ==
    /\ tool = "inspect"
    /\ pc = "loop"
    /\ idx = Len(clusters)
    /\ pc' = "done"
    /\ result' = newToolResultText(Inspection(violations))
    /\ UNCHANGED <<tool, input, hub, canceled, canceledAtEntry, requestIDCounter,
                   policy, resolvedNS, idx, clusters, violations, fetches, panicked>>
    /\ UNCHANGED <<msgVars, calls>>

Next ==
    \/ Cancel
    \/ HandleRejected
    \/ DiagnoseEntry
    \/ DiagnoseSkip
    \/ DiagnoseCluster
    \/ DiagnoseFinish
    \/ InspectEntry
    \/ InspectCluster
    \/ InspectFinish

Spec == Init /\ [][Next]_vars

NextMsg == ParseMsg \/ ClassifyMsg

SpecMsg == InitMsg /\ [][NextMsg]_vars

SpecMatch == InitMatch /\ [][NextMsg]_vars

NextDiagnose == DiagnoseEntry \/ DiagnoseSkip \/ DiagnoseCluster \/ DiagnoseFinish

SpecDiagnose == InitDiagnose /\ [][NextDiagnose]_vars

\* generateRequestID calls, each made by the handler of its own request,
\* about to run concurrently
InitIDs ==
    /\ tool = "ids"
    /\ msg = <<>> /\ msgIndex = EmptyIndex /\ msgParsed = <<>> /\ msgIssue = <<>>
    /\ RequestIdle
    /\ calls \in {[c \in 1..n |-> [pc |-> "start", counter |-> 0, suffix |-> 0]] :
                    n \in 1..MaxCalls}

Add_LoadThenStore ==
    /\ tool = "ids"
    /\ \E c \in 1..Len(calls), seen \in 0..requestIDCounter :
          /\ calls[c].pc = "start"
          /\ requestIDCounter' = seen + 1
          /\ calls' = [calls EXCEPT ![c].pc = "added", ![c].counter = seen + 1]
    /\ UNCHANGED <<msgVars, tool, input, hub, pc, canceled, canceledAtEntry, policy,
                   resolvedNS, idx, clusters, violations, fetches, panicked, result>>

\* counter := requestIDCounter.Add(1): one atomic step that increments the
\* counter and returns the new value (a uint64; it wraps only after 2^64 calls)
Add ==
    /\ tool = "ids"
    /\ \E c \in 1..Len(calls) :
          /\ calls[c].pc = "start"
          /\ requestIDCounter' = requestIDCounter + 1
          /\ calls' = [calls EXCEPT ![c].pc = "added",
                                    ![c].counter = requestIDCounter + 1]
    /\ UNCHANGED <<msgVars, tool, input, hub, pc, canceled, canceledAtEntry, policy,
                   resolvedNS, idx, clusters, violations, fetches, panicked, result>>

\* return fmt.Sprintf("%d-%05d", time.Now().Unix(), counter%100000): the part
\* of the id that comes from the counter
generateRequestID ==
    /\ tool = "ids"
    /\ \E c \in 1..Len(calls) :
          /\ calls[c].pc = "added"
          /\ calls' = [calls EXCEPT ![c].pc = "returned",
                                    ![c].suffix = calls[c].counter % 100000]
    /\ UNCHANGED <<msgVars, reqVars>>

NextIDs == Add \/ generateRequestID

SpecIDs == InitIDs /\ [][NextIDs]_vars

NextIndex == ExtractIndex \/ ParseMsg \/ ClassifyMsg

SpecIndex == InitIndex /\ [][NextIndex]_vars

(***************************************************************************)
(* Properties of a diagnose or inspect request (specification Spec).        *)
(***************************************************************************)
\* the GetResource calls made for propagated policies, in the order issued
PropFetches ==
    SelectSeq(fetches,
              LAMBDA f : f.op = "get"
                         /\ f.name = PropagatedName(resolvedNS, input.PolicyName))

\* the result the other handlers of the server return for a canceled context
CanceledResult == newToolResultError("operation canceled")

\* the request returned a diagnosis document
ReturnedDiagnosis ==
    /\ tool = "diagnose"
    /\ pc = "done"
    /\ result.returned = "result"
    /\ ~result.IsError

\* the status.status entries buildDiagnosis has to diagnose
Affected ==
    SelectSeq(policy.statusList,
              LAMBDA s : /\ s.isMap
                         /\ s.compliant # complianceCompliant
                         /\ (input.Cluster = <<>> \/ s.clustername = input.Cluster))

\* C1: a finished diagnose request that was canceled at entry, or one of whose
\* propagated-policy fetches observed the cancellation, fetched nothing after
\* that point and returned the canceled-operation result, never a diagnosis.
C1_CancelEndsRequest ==
    (tool = "diagnose" /\ pc = "done") =>
        /\ canceledAtEntry => (result = CanceledResult /\ PropFetches = <<>>)
        /\ \A i \in 1..Len(PropFetches) :
              PropFetches[i].sawCancel =>
                  (i = Len(PropFetches) /\ result = CanceledResult)

\* C2: a cluster whose propagated-policy fetch failed holds exactly one issue,
\* of type unknown, whose message names the propagated policy; a cluster whose
\* own fetch succeeded holds no such issue whatever happened to the others;
\* and a returned diagnosis has one entry per affected cluster, in order.
C2_FetchFailureIsOneUnknownIssue ==
    tool = "diagnose" =>
        /\ \A k \in 1..Len(PropFetches) :
              k <= Len(clusters) =>
                  IF PropFetches[k].failed
                  THEN /\ Len(clusters[k].Issues) = 1
                       /\ clusters[k].Issues[1].ViolationType = violationUnknown
                       /\ Contains(clusters[k].Issues[1].Message,
                                   PropagatedName(resolvedNS, input.PolicyName))
                       /\ Contains(clusters[k].Issues[1].Message, S_could_not_fetch)
                  ELSE \A n \in 1..Len(clusters[k].Issues) :
                          ~Contains(clusters[k].Issues[n].Message, S_could_not_fetch)
        /\ (ReturnedDiagnosis /\ Affected # <<>>) =>
              /\ Len(clusters) = Len(Affected)
              /\ Len(PropFetches) = Len(Affected)
              /\ \A k \in 1..Len(Affected) :
                    /\ clusters[k].ClusterName = Affected[k].clustername
                    /\ PropFetches[k].namespace = Affected[k].clustername

\* a diagnosis of two clusters: the first fetch failed, the second succeeded
\* and its cluster has issues of its own
C2_Witness ==
    /\ ReturnedDiagnosis
    /\ Len(clusters) = 2
    /\ Len(PropFetches) = 2
    /\ PropFetches[1].failed
    /\ ~PropFetches[2].failed
    /\ Len(clusters[1].Issues) = 1
    /\ clusters[1].Issues[1].ViolationType = violationUnknown
    /\ clusters[2].Issues # <<>>
    /\ clusters[2].Issues[1].ViolationType # violationUnknown

\* C3: whatever is malformed or absent in the policy, template and
\* status.details trees, a request never ends in a panic.
C3_MalformedIsNotPresent == ~panicked

\* C4: a request in which a panic was raised ends with an error result.
C4_PanicBecomesErrorResult ==
    (pc = "done" /\ panicked) => (result.returned = "result" /\ result.IsError)

(***************************************************************************)
(* Properties of classifyAndEnrich on one message (specification SpecMsg).  *)
(***************************************************************************)
\* the message contains sub, compared case-insensitively
MsgHas(sub) == Contains(ToLower(msg), sub)

NoOLMText == ~MsgHas(S_installplan) /\ ~MsgHas(S_clusterserviceversion)

\* the OLM branch of buildSuggestedCall is open to the issue by its kind
OLMBranchByKind(issue) == isOLMKind(issue.ResourceKind) /\ issue.ResourceName # <<>>

\* C5 as stated: a message with "not found" and no OLM substring is
\* classified resource_missing.
C5_NotFoundIsMissing_Original ==
    (msgIssue # <<>> /\ MsgHas(S_not_found) /\ NoOLMText) =>
        msgIssue[1].ViolationType = violationMissing

\* C5: a message with "not found" (case-insensitively) and no OLM substring is
\* classified resource_missing, unless its parsed kind is an OLM kind and its
\* parsed name is non-empty, and then it is olm_stuck.
C5_NotFoundIsMissing ==
    (msgIssue # <<>> /\ MsgHas(S_not_found) /\ NoOLMText) =>
        msgIssue[1].ViolationType =
            IF OLMBranchByKind(msgIssue[1]) THEN violationOLMStuck ELSE violationMissing

\* a named non-OLM resource whose "Not Found" matches only case-insensitively
C5_Witness ==
    /\ msgIssue # <<>>
    /\ MsgHas(S_not_found)
    /\ ~Contains(msg, S_not_found)
    /\ NoOLMText
    /\ msgIssue[1].ResourceName # <<>>
    /\ msgIssue[1].ViolationType = violationMissing

\* C6 as stated: a message with "not as specified" and no OLM substring is
\* classified resource_drift.
C6_NotAsSpecifiedIsDrift_Original ==
    (msgIssue # <<>> /\ MsgHas(S_not_as_specified) /\ NoOLMText) =>
        msgIssue[1].ViolationType = violationDrift

\* C6: a message with "not as specified", without "not found" and without an
\* OLM substring is classified resource_drift, unless its parsed kind is an
\* OLM kind and its parsed name is non-empty, and then it is olm_stuck.
C6_NotAsSpecifiedIsDrift ==
    (msgIssue # <<>> /\ MsgHas(S_not_as_specified) /\ ~MsgHas(S_not_found)
       /\ NoOLMText) =>
        msgIssue[1].ViolationType =
            IF OLMBranchByKind(msgIssue[1]) THEN violationOLMStuck ELSE violationDrift

\* a drifted resource of a non-OLM kind
C6_Witness ==
    /\ msgIssue # <<>>
    /\ MsgHas(S_not_as_specified)
    /\ ~MsgHas(S_not_found)
    /\ NoOLMText
    /\ msgIssue[1].ResourceKind # <<>>
    /\ msgIssue[1].ViolationType = violationDrift

\* the kind names of the promotion rule: singular or plural, any case
OLMKindNames ==
    {S_Subscription, S_ClusterServiceVersion, S_Operator, S_InstallPlan,
     S_CatalogSource}

NamedOLMKind(kind) ==
    \E k \in OLMKindNames : ToLower(kind) \in {ToLower(k), ToLower(k) \o <<"s">>}

\* the third rule of the message classification is the first that matches
OLMByText ==
    /\ ~MsgHas(S_not_found)
    /\ ~MsgHas(S_not_as_specified)
    /\ (MsgHas(S_installplan) \/ MsgHas(S_clusterserviceversion))

\* C7 as stated: every issue whose parsed kind is an OLM kind ends olm_stuck,
\* and an issue classified olm_stuck by its text stays olm_stuck.
C7_KindPromotion_Original ==
    msgIssue # <<>> =>
        /\ NamedOLMKind(msgIssue[1].ResourceKind) =>
              msgIssue[1].ViolationType = violationOLMStuck
        /\ OLMByText => msgIssue[1].ViolationType = violationOLMStuck

\* C7: every issue whose parsed kind is an OLM kind and whose parsed name is
\* non-empty ends olm_stuck, whatever the message text; and an issue
\* classified olm_stuck by its text stays olm_stuck.
C7_KindPromotion ==
    msgIssue # <<>> =>
        /\ (NamedOLMKind(msgIssue[1].ResourceKind) /\ msgIssue[1].ResourceName # <<>>) =>
              msgIssue[1].ViolationType = violationOLMStuck
        /\ OLMByText => msgIssue[1].ViolationType = violationOLMStuck

\* a named Subscription promoted although the text names no OLM substring
C7_Witness ==
    /\ msgIssue # <<>>
    /\ NamedOLMKind(msgIssue[1].ResourceKind)
    /\ msgIssue[1].ResourceName # <<>>
    /\ NoOLMText
    /\ MsgHas(S_not_as_specified)
    /\ msgIssue[1].ViolationType = violationOLMStuck

(***************************************************************************)
(* Properties of parseViolationResource on one message (SpecMsg).           *)
(***************************************************************************)
\* the message as the parser reads it
Trimmed == TrimSpace(msg)

\* the text between the '[' at 0-based position ob of s and the next ']'
Bracketed(s, ob) ==
    Slice(s, ob + 1, ob + 1 + Index(SliceFrom(s, ob + 1), <<"]">>))

\* the first whitespace-delimited token of s
FirstToken(s) ==
    LET t == TrimSpace(s)
        sp == IndexAny(t, WhiteSpace)
    IN  IF sp >= 0 THEN Slice(t, 0, sp) ELSE t

\* the message falls under grammar A and has a closed bracket pair
GrammarABracketed ==
    /\ Trimmed # <<>>
    /\ Trimmed[1] # "["
    /\ Index(Trimmed, <<"[">>) >= 0
    /\ Index(SliceFrom(Trimmed, Index(Trimmed, <<"[">>) + 1), <<"]">>) >= 0

\* the message falls under grammar A and has no '['
GrammarABare ==
    /\ Trimmed # <<>>
    /\ Trimmed[1] # "["
    /\ Index(Trimmed, <<"[">>) < 0

\* what C8 says of bracketed messages and of scenario A
C8_BracketedPart ==
    /\ GrammarABracketed =>
          /\ msgParsed[1].kind = TrimSpace(Slice(Trimmed, 0, Index(Trimmed, <<"[">>)))
          /\ msgParsed[1].name = Bracketed(Trimmed, Index(Trimmed, <<"[">>))
    /\ msg = S_ScenarioA =>
          (msgParsed[1].kind = S_nodes /\ msgParsed[1].name = S_worker_1)

\* C8 as stated: under grammar A the kind is the trimmed text before the first
\* '[' and the name the text up to the next ']'; without a '[' the kind is the
\* first whitespace-delimited token and the name is empty.
C8_GrammarA_Original ==
    msgParsed # <<>> =>
        /\ C8_BracketedPart
        /\ GrammarABare =>
              (msgParsed[1].kind = FirstToken(Trimmed) /\ msgParsed[1].name = <<>>)

\* C8: under grammar A the kind is the trimmed text before the first '[' and
\* the name the text up to the next ']'; without a '[' the name is empty and
\* the kind is the text before the first space or tab, empty when the trimmed
\* message has none.
C8_GrammarA ==
    msgParsed # <<>> =>
        /\ C8_BracketedPart
        /\ GrammarABare =>
              /\ msgParsed[1].name = <<>>
              /\ msgParsed[1].kind =
                    IF IndexAny(Trimmed, SpaceTab) >= 0
                    THEN Slice(Trimmed, 0, IndexAny(Trimmed, SpaceTab)) ELSE <<>>

\* a bracketed grammar A message with text around the bracket pair
C8_Witness ==
    /\ msgParsed # <<>>
    /\ GrammarABracketed
    /\ msgParsed[1].kind # <<>>
    /\ msgParsed[1].name # <<>>
    /\ Len(Trimmed) > Len(msgParsed[1].kind) + Len(msgParsed[1].name) + 3

NamespaceToken(s) ==
    LET after == SliceFrom(s, Index(s, S_in_namespace) + Len(S_in_namespace))
        stop == IndexAny(after, WhiteSpace \cup {";", ","})
    IN  IF stop >= 0 THEN Slice(after, 0, stop) ELSE after

\* C10: with "in namespace " in the message the namespace is the token after
\* its first occurrence, ending at the first whitespace, ';' or ',' and so
\* free of them; without it the namespace is empty.
C10_NamespaceToken ==
    msgParsed # <<>> =>
        IF Contains(msg, S_in_namespace)
        THEN /\ msgParsed[1].ns = NamespaceToken(msg)
             /\ \A i \in 1..Len(msgParsed[1].ns) :
                   msgParsed[1].ns[i] \notin WhiteSpace \cup {";", ","}
        ELSE msgParsed[1].ns = <<>>

(***************************************************************************)
(* Properties of the desired-state lookup (specification SpecMatch).        *)
(***************************************************************************)
\* the index entries of the violation's template
TemplateKeys ==
    {key \in DOMAIN msgIndex :
        HasPrefixAt(key, msgIssue[1].TemplateName \o <<"/">>, 0)}

\* the entries of the exact tier: same template, kind equal but for case,
\* name equal
ExactKeys ==
    {key \in TemplateKeys :
        /\ key = StateKey(msgIssue[1].TemplateName, msgIndex[key].kind,
                          msgIndex[key].name)
        /\ ToLower(msgIndex[key].kind) = ToLower(msgIssue[1].ResourceKind)
        /\ msgIndex[key].name = msgIssue[1].ResourceName}

\* C11: when the index holds fragments of the violation's template whose kind
\* equals the violation's kind case-insensitively and whose name equals its
\* name, the desired state is one of them, never a fragment of a later tier.
C11_ExactTierFirst ==
    (msgIssue # <<>> /\ ExactKeys # {}) =>
        msgIssue[1].DesiredState \in {<<msgIndex[key]>> : key \in ExactKeys}

\* an exact hit returned although the template holds other fragments with
\* the violation's name
C11_Witness ==
    /\ msgIssue # <<>>
    /\ ExactKeys # {}
    /\ \E key \in TemplateKeys \ ExactKeys :
          msgIndex[key].name = msgIssue[1].ResourceName
    /\ msgIssue[1].DesiredState \in {<<msgIndex[key]>> : key \in ExactKeys}

\* kind X against kind Xs or Xes, in both directions and whatever the case
PluralOf(a, b) ==
    \/ ToLower(a) \o <<"s">> = ToLower(b)
    \/ ToLower(a) \o <<"e", "s">> = ToLower(b)

\* the entries of the flexible tier: same template, fragment kind the plural
\* of the violation's kind or the reverse, and the name absent from the
\* violation or equal
FlexibleKeys ==
    {key \in TemplateKeys :
        /\ \/ PluralOf(msgIndex[key].kind, msgIssue[1].ResourceKind)
           \/ PluralOf(msgIssue[1].ResourceKind, msgIndex[key].kind)
        /\ \/ msgIssue[1].ResourceName = <<>>
           \/ msgIndex[key].name = msgIssue[1].ResourceName}

\* C12: when no entry matches exactly and the violation's template holds
\* fragments whose kind is the singular or plural (s, es) of the violation's
\* kind, in either direction, with the name absent or equal, the desired state
\* is one of them.
C12_FlexibleTier ==
    (msgIssue # <<>> /\ ExactKeys = {} /\ FlexibleKeys # {}) =>
        msgIssue[1].DesiredState \in {<<msgIndex[key]>> : key \in FlexibleKeys}

\* neither the first nor the second loop of matchDesiredState returns
NoTierMatches ==
    /\ matchExact(msgIndex, msgIssue[1].TemplateName, msgIssue[1].ResourceKind,
                  msgIssue[1].ResourceName) = {}
    /\ matchFlexible(msgIndex, msgIssue[1].TemplateName, msgIssue[1].ResourceKind,
                     msgIssue[1].ResourceName) = {}

\* C13: when neither the exact nor the flexible tier matches, the desired
\* state is the template's fragment if the index holds exactly one entry for
\* the violation's template, and absent if it holds none or several.
C13_FallbackTier ==
    (msgIssue # <<>> /\ NoTierMatches) =>
        msgIssue[1].DesiredState =
            IF Cardinality(TemplateKeys) = 1
            THEN <<msgIndex[CHOOSE key \in TemplateKeys : TRUE]>>
            ELSE <<>>

\* the only fragment of the template is returned for a violation of another
\* kind and name, in an index that also holds another template's fragment
C13_Witness ==
    /\ msgIssue # <<>>
    /\ NoTierMatches
    /\ Cardinality(TemplateKeys) = 1
    /\ Cardinality(DOMAIN msgIndex) > 1
    /\ msgIssue[1].DesiredState # <<>>
    /\ msgIssue[1].DesiredState[1].name # msgIssue[1].ResourceName
    /\ ~PluralOf(msgIssue[1].DesiredState[1].kind, msgIssue[1].ResourceKind)

\* C14: for the index and the parsed violation at hand, matchDesiredState has
\* one possible result, whatever order the index entries are visited in.
C14_MatchIsDeterministic ==
    msgParsed # <<>> =>
        Cardinality(matchDesiredState(msgIndex, S_T1, msgParsed[1].kind,
                                      msgParsed[1].name)) = 1

(***************************************************************************)
(* Properties of the suggested call (specifications SpecMsg and SpecMatch). *)
(***************************************************************************)
\* the violation is OLM by its message or by its kind
OLMViolation == OLMByText \/ NamedOLMKind(msgIssue[1].ResourceKind)

\* C15: the suggested tool is trace_olm_subscription for an OLM violation (by
\* message or by kind) with a resource name, else resources_get when kind and
\* name are present, else resources_list when only the kind is present, else
\* there is no suggested call.
C15_ToolPriority ==
    msgIssue # <<>> =>
        IF OLMViolation /\ msgIssue[1].ResourceName # <<>>
        THEN msgIssue[1].SuggestedToolCall.Tool = "trace_olm_subscription"
        ELSE IF msgIssue[1].ResourceKind # <<>> /\ msgIssue[1].ResourceName # <<>>
        THEN msgIssue[1].SuggestedToolCall.Tool = "resources_get"
        ELSE IF msgIssue[1].ResourceKind # <<>>
        THEN msgIssue[1].SuggestedToolCall.Tool = "resources_list"
        ELSE msgIssue[1].SuggestedToolCall = NoCall

\* an OLM kind without a resource name falls through to resources_list
C15_Witness ==
    /\ msgIssue # <<>>
    /\ NamedOLMKind(msgIssue[1].ResourceKind)
    /\ msgIssue[1].ResourceName = <<>>
    /\ msgIssue[1].SuggestedToolCall.Tool = "resources_list"

\* the issue suggests an OLM trace
TraceSuggested ==
    /\ msgIssue # <<>>
    /\ msgIssue[1].SuggestedToolCall.Tool = "trace_olm_subscription"

\* the violation's kind denotes the Operator custom resource
OperatorKind ==
    ToLower(msgIssue[1].ResourceKind) \in {S_operators, ToLower(S_Operator), S_operators_fq}

\* the Subscription fragments of the index that declare a name
NamedSubscriptions ==
    {f \in {msgIndex[key] : key \in DOMAIN msgIndex} :
        ToLower(f.kind) = ToLower(S_Subscription) /\ f.hasMeta /\ f.name # <<>>}

OrDefaultNamespace(ns) == IF ns = <<>> THEN S_openshift_operators ELSE ns

\* the trace call names subscription n in namespace ns, defaulted when empty
TraceArgs(n, ns) ==
    /\ msgIssue[1].SuggestedToolCall.Args.subscription_name = n
    /\ msgIssue[1].SuggestedToolCall.Args.subscription_namespace = OrDefaultNamespace(ns)

\* the name and namespace when no Subscription fragment resolves them
TraceArgsWithoutFragment ==
    LET n == msgIssue[1].ResourceName
        dot == Index(n, <<".">>)
    IN  IF OperatorKind /\ dot >= 0
        THEN TraceArgs(Slice(n, 0, dot), SliceFrom(n, dot + 1))
        ELSE TraceArgs(n, msgIssue[1].ResourceNamespace)

\* C16 as stated: for an Operator kind the trace call carries the declared
\* name and namespace of a Subscription fragment of the index when there is
\* one, else the two parts of the violation's name around its first '.', and
\* for other kinds the violation's own name and namespace; the namespace is
\* openshift-operators when none was resolved.
C16_SubscriptionResolution_Original ==
    TraceSuggested =>
        IF OperatorKind /\ NamedSubscriptions # {}
        THEN \E f \in NamedSubscriptions : TraceArgs(f.name, f.namespace)
        ELSE TraceArgsWithoutFragment

\* C16: for an Operator kind the trace call carries the declared name of a
\* Subscription fragment of the index that declares a non-empty name, with
\* that fragment's namespace when it declares one and the violation's own
\* namespace otherwise; without such a fragment, the two parts of the
\* violation's name around its first '.'; for other kinds the violation's own
\* name and namespace; the namespace is openshift-operators when still empty.
C16_SubscriptionResolution ==
    TraceSuggested =>
        IF OperatorKind /\ NamedSubscriptions # {}
        THEN \E f \in NamedSubscriptions :
                TraceArgs(f.name, IF f.namespace # <<>> THEN f.namespace
                                  ELSE msgIssue[1].ResourceNamespace)
        ELSE TraceArgsWithoutFragment

\* an Operator violation with its own namespace, resolved through a
\* Subscription fragment that declares a name and no namespace
C16_Witness ==
    /\ TraceSuggested
    /\ OperatorKind
    /\ msgIssue[1].ResourceNamespace # <<>>
    /\ \E f \in NamedSubscriptions :
          /\ f.namespace = <<>>
          /\ msgIssue[1].SuggestedToolCall.Args.subscription_name = f.name
          /\ msgIssue[1].SuggestedToolCall.Args.subscription_namespace
                = msgIssue[1].ResourceNamespace

(***************************************************************************)
(* Properties of the clusters of a diagnosis (specification Spec).          *)
(***************************************************************************)
\* cluster entry k of the diagnosis was built from a status.status entry
FromStatusEntry(k) ==
    \E i \in 1..Len(policy.statusList) :
        /\ policy.statusList[i].isMap
        /\ policy.statusList[i].clustername = clusters[k].ClusterName
        /\ policy.statusList[i].compliant = clusters[k].ComplianceState

\* C17: no cluster entry of a diagnosis has compliance_state "Compliant":
\* Compliant status.status entries never appear, and when the policy's own
\* state is Compliant every entry comes from a status.status entry (its
\* namespace is not added as a cluster).
C17_NoCompliantCluster ==
    tool = "diagnose" =>
        /\ \A k \in 1..Len(clusters) : clusters[k].ComplianceState # "Compliant"
        /\ policy.compliant = "Compliant" =>
              \A k \in 1..Len(clusters) : FromStatusEntry(k)

\* a diagnosis with a cluster entry, whose policy lists a Compliant cluster too
C17_Witness ==
    /\ ReturnedDiagnosis
    /\ Len(clusters) >= 1
    /\ \E i \in 1..Len(policy.statusList) :
          /\ policy.statusList[i].isMap
          /\ policy.statusList[i].compliant = "Compliant"

\* the policy was diagnosed directly: no status.status, not Compliant
PropagatedCase ==
    /\ policy.statusList = <<>>
    /\ policy.compliant # "Compliant"
    /\ policy.namespace # <<>>

C19_ClusterFilter ==
    (ReturnedDiagnosis /\ input.Cluster # <<>>) =>
        /\ \A k \in 1..Len(clusters) : clusters[k].ClusterName = input.Cluster
        /\ \A i \in 1..Len(PropFetches) : PropFetches[i].namespace = input.Cluster

\* the filter holds for the entries built from status.status
C19_Witness ==
    /\ ReturnedDiagnosis
    /\ input.Cluster # <<>>
    /\ Len(policy.statusList) >= 2
    /\ Len(clusters) = 1
    /\ clusters[1].ClusterName = input.Cluster
    /\ Len(PropFetches) = 1

(***************************************************************************)
(* Properties of the stored message (specification SpecMsg).                *)
(***************************************************************************)
\* the bytes 0x80..0xBF, which continue a UTF-8 character, among the bytes of
\* the model
ContinuationBytes == {"A9"}

\* the positions of msg where a character starts
CharStarts == {i \in 1..Len(msg) : msg[i] \notin ContinuationBytes}

\* the message is longer than maxViolationMessageLen characters
LongerThanLimit == Cardinality(CharStarts) > maxViolationMessageLen

\* the first maxViolationMessageLen characters of a message longer than that
FirstCharacters ==
    LET next == CHOOSE i \in CharStarts :
                    Cardinality({j \in CharStarts : j < i}) = maxViolationMessageLen
    IN  SubSeq(msg, 1, next - 1)

\* C20: whatever the length of the message, the issue's violation type,
\* resource kind, name, namespace, desired state and suggested call are those
\* computed from the full message; the stored message is the first 300
\* characters followed by "..." when the message is longer than 300
\* characters, and the message itself otherwise.
C20_TruncationAfterClassification ==
    msgIssue # <<>> =>
        /\ [msgIssue[1] EXCEPT !.Message = msg]
              \in classifyAndEnrich(msg, S_spoke1, S_T1, msgIndex)
        /\ msgIssue[1].Message =
              IF LongerThanLimit THEN FirstCharacters \o <<".", ".", ".">> ELSE msg

\* a message whose only "not found" lies past the limit is classified missing
\* and stored cut
C20_Witness ==
    /\ msgIssue # <<>>
    /\ Len(msg) > maxViolationMessageLen
    /\ ~Contains(ToLower(SubSeq(msg, 1, maxViolationMessageLen)),
                 <<"n", "o", "t", " ", "f", "o", "u", "n", "d">>)
    /\ msgIssue[1].ViolationType = "resource_missing"
    /\ msgIssue[1].Message = SubSeq(msg, 1, maxViolationMessageLen) \o <<".", ".", ".">>

(***************************************************************************)
(* Properties of the issues of a cluster (specification SpecDiagnose).      *)
(***************************************************************************)
\* the status.details entries that give an issue: maps that are not Compliant
\* and whose history starts with a map
IssueDetails(details) ==
    SelectSeq(details,
              LAMBDA d : /\ d.isMap
                         /\ d.compliant # "Compliant"
                         /\ Len(d.history) > 0
                         /\ d.history[1].isMap)

\* cluster entry k was diagnosed from the propagated policy fetch k returned
DiagnosedFromFetch(k) ==
    /\ k <= Len(PropFetches)
    /\ PropFetches[k].namespace = clusters[k].ClusterName
    /\ ~PropFetches[k].failed

\* issue is the one the first history entry of detail d gives for cluster k
IssueOfFirstEntry(issue, d, k) ==
    LET m == d.history[1].message
    IN  /\ issue.TemplateName = d.templateName
        /\ issue.Message = IF Len(m) > 300
                           THEN SubSeq(m, 1, 300) \o <<".", ".", ".">>
                           ELSE m
        /\ [issue EXCEPT !.Message = m]
              \in classifyAndEnrich(m, clusters[k].ClusterName, d.templateName,
                                    extractDesiredStates(policy))

\* C21: the issues of a cluster are, in order, one issue per status.details
\* entry that is not Compliant and has a history, built from the first history
\* entry alone; Compliant entries and entries with an empty history give none.
C21_FirstHistoryEntryOnly ==
    tool = "diagnose" =>
        \A k \in 1..Len(clusters) :
            DiagnosedFromFetch(k) =>
                LET sel == IssueDetails(PropFetches[k].details)
                IN  /\ Len(clusters[k].Issues) = Len(sel)
                    /\ \A j \in 1..Len(sel) :
                          IssueOfFirstEntry(clusters[k].Issues[j], sel[j], k)

\* a cluster whose propagated policy has a Compliant entry and an entry with
\* two history entries: one issue, carrying the first entry's message
C21_Witness ==
    /\ ReturnedDiagnosis
    /\ \E k \in 1..Len(clusters) :
          /\ DiagnosedFromFetch(k)
          /\ \E i, j \in 1..Len(PropFetches[k].details) :
                /\ PropFetches[k].details[i].isMap
                /\ PropFetches[k].details[i].compliant = "Compliant"
                /\ PropFetches[k].details[j].isMap
                /\ Len(PropFetches[k].details[j].history) >= 2
                /\ Len(clusters[k].Issues) = 1
                /\ clusters[k].Issues[1].Message
                      = PropFetches[k].details[j].history[1].message

(***************************************************************************)
(* Properties of resolvePolicy (specification Spec).                        *)
(***************************************************************************)
\* resolvePolicy was called and has returned
ResolutionAttempted == tool \in {"diagnose", "inspect"} /\ pc # "entry" /\ fetches # <<>>

\* the direct get of resolvePolicy was made and returned the object
DirectGetSucceeded ==
    /\ input.Namespace # <<>>
    /\ fetches[1].op = "get"
    /\ fetches[1].name = input.PolicyName
    /\ fetches[1].namespace = input.Namespace
    /\ ~fetches[1].failed

ListCalls == SelectSeq(fetches, LAMBDA f : f.op = "list")

\* the positions of the hub list holding a policy of the requested name
NamedPolicies == {i \in 1..Len(hub) : hub[i].name = input.PolicyName}

FirstNamed == CHOOSE i \in NamedPolicies : \A j \in NamedPolicies : i <= j

\* the request ended with a not-found error naming what was attempted
NotFoundError ==
    /\ result.returned = "result"
    /\ result.IsError
    /\ \/ /\ input.Namespace # <<>>
          /\ result.error = "policy not found in namespace or any other namespace"
          /\ result.args = <<input.PolicyName, input.Namespace>>
       \/ /\ input.Namespace = <<>>
          /\ result.error = "policy not found in any namespace"
          /\ result.args = <<input.PolicyName>>

\* what resolvePolicy returns when it finds the policy, by get or by list
C22_Found ==
    /\ DirectGetSucceeded =>
          /\ ListCalls = <<>>
          /\ policy.name = input.PolicyName
          /\ policy.namespace = input.Namespace
          /\ resolvedNS = input.Namespace
    /\ ~DirectGetSucceeded =>
          /\ Len(ListCalls) = 1
          /\ (~ListCalls[1].failed /\ NamedPolicies # {}) =>
                /\ policy = hub[FirstNamed]
                /\ resolvedNS = hub[FirstNamed].namespace

\* C22 as stated: a successful direct get returns the object and the given
\* namespace without listing; otherwise the first policy of that name in the
\* all-namespaces list is returned with its own namespace; the request ends
\* with the not-found error exactly when no policy of that name exists.
C22_ResolvePolicy_Original ==
    ResolutionAttempted =>
        /\ C22_Found
        /\ NotFoundError <=> NamedPolicies = {}

\* C22: a successful direct get returns the object and the given namespace
\* without listing; otherwise the list is called once and, when it succeeds,
\* the first policy of that name is returned with its own namespace; the
\* request ends with the not-found error exactly when the list call succeeded
\* and holds no policy of that name, and with the list error when it failed.
C22_ResolvePolicy ==
    ResolutionAttempted =>
        /\ C22_Found
        /\ NotFoundError <=>
              (~DirectGetSucceeded /\ ~ListCalls[1].failed /\ NamedPolicies = {})
        /\ (~DirectGetSucceeded /\ ListCalls[1].failed) =>
              /\ result.IsError
              /\ result.error = "failed to list policies across namespaces"

\* the get in the given namespace failed and the list found the policy first
\* in another namespace
C22_Witness ==
    /\ ResolutionAttempted
    /\ input.Namespace = S_ztp
    /\ fetches[1].op = "get" /\ fetches[1].failed
    /\ policy.name = input.PolicyName
    /\ policy.namespace = S_sno_abi
    /\ resolvedNS = S_sno_abi

(***************************************************************************)
(* Properties of the calls made on the inspector (specification Spec).      *)
(***************************************************************************)
\* C23: every call a diagnose or inspect request makes on the resource-access
\* capability is GetResource or ListResources, on every path.
C23_ReadOnly ==
    tool \in {"diagnose", "inspect"} =>
        \A i \in 1..Len(fetches) : fetches[i].op \in {"get", "list"}

\* a finished request that made a direct get, a list and a propagated-policy
\* get that failed
C23_Witness ==
    /\ tool \in {"diagnose", "inspect"}
    /\ pc = "done"
    /\ Len(fetches) >= 3
    /\ fetches[1].op = "get"
    /\ fetches[2].op = "list"
    /\ \E i \in 3..Len(fetches) : fetches[i].op = "get" /\ fetches[i].failed

\* C24: the issues of a cluster entry are those obtained from the index, the
\* cluster's name and the outcome of that cluster's own fetch (its failure, or
\* the status.details it returned), whatever came before or after it in
\* status.status and whatever the other fetches returned.
C24_PerClusterIndependence ==
    tool = "diagnose" =>
        \A k \in 1..Len(clusters) :
            (k <= Len(PropFetches) /\ PropFetches[k].namespace = clusters[k].ClusterName) =>
                [panicked |-> FALSE, Issues |-> clusters[k].Issues]
                    \in enrichClusterDiagnosis(PropFetches[k].failed,
                                               PropFetches[k].details, <<>>,
                                               resolvedNS, input.PolicyName,
                                               clusters[k].ClusterName,
                                               extractDesiredStates(policy))

\* two clusters diagnosed in one request: the first fetch failed, the second
\* returned details that give an issue
C24_Witness ==
    /\ ReturnedDiagnosis
    /\ Len(clusters) = 2
    /\ Len(PropFetches) = 2
    /\ PropFetches[1].failed
    /\ ~PropFetches[2].failed
    /\ Len(clusters[1].Issues) = 1
    /\ Len(clusters[2].Issues) >= 1
    /\ clusters[2].Issues[1].ViolationType # "unknown"

(***************************************************************************)
(* Properties of the DesiredStateIndex (specification SpecIndex).           *)
(***************************************************************************)
\* the index of the drawn policy has been built
Indexed == tool = "classify" /\ policy # NoPolicy

\* the object-templates elements that carry an objectDefinition map, inside
\* policy-templates entries whose objectDefinition is a ConfigurationPolicy
\* with a spec and an object-templates list
IndexedElements ==
    {pos \in UNION {{<<i, j>> : j \in 1..Len(policy.templates[i].objectTemplates)} :
                       i \in 1..Len(policy.templates)} :
        LET t == policy.templates[pos[1]]
        IN  /\ t.isMap /\ t.hasObjDef /\ t.hasSpec /\ t.isList
            /\ t.kind = <<"C","o","n","f","i","g","u","r","a","t","i","o","n",
                          "P","o","l","i","c","y">>
            /\ t.objectTemplates[pos[2]].isMap
            /\ t.objectTemplates[pos[2]].hasObjDef}

ElementTemplate(pos) == policy.templates[pos[1]].templateName
ElementFragment(pos) == policy.templates[pos[1]].objectTemplates[pos[2]].desired

\* template name, resource kind and resource name of an element, as one key
ElementKey(pos) ==
    LET f == ElementFragment(pos)
    IN  ElementTemplate(pos) \o <<"/">> \o f.kind \o <<"/">>
            \o (IF f.hasMeta THEN f.name ELSE <<>>)

\* element a comes later in the document than every element sharing its key
LastOfKey(a) ==
    \A b \in IndexedElements :
        ElementKey(b) = ElementKey(a) =>
            (a[1] > b[1] \/ (a[1] = b[1] /\ a[2] >= b[2]))

\* C25 as stated: the index holds one entry per such element, under (template
\* name, resource kind, resource name), and nothing else.
C25_IndexedElements_Original ==
    Indexed =>
        /\ DOMAIN msgIndex = {ElementKey(pos) : pos \in IndexedElements}
        /\ \A pos \in IndexedElements : msgIndex[ElementKey(pos)] = ElementFragment(pos)

\* C25: the keys of the index are the (template name, resource kind, resource
\* name) of such elements and nothing else, and the entry under a key is the
\* fragment of the last element having that key.
C25_IndexedElements ==
    Indexed =>
        /\ DOMAIN msgIndex = {ElementKey(pos) : pos \in IndexedElements}
        /\ \A pos \in IndexedElements :
              LastOfKey(pos) => msgIndex[ElementKey(pos)] = ElementFragment(pos)

\* a ConfigurationPolicy template indexed next to a template of another kind,
\* which contributes nothing
C25_Witness ==
    /\ Indexed
    /\ Len(policy.templates) = 2
    /\ policy.templates[1].kind = <<"C", "e", "r", "t">>
    /\ Len(policy.templates[2].objectTemplates) = 4
    /\ Cardinality(DOMAIN msgIndex) = 2

\* C26: two templates of different names that define a resource of the same
\* kind and name each keep an entry of their own in the index, and the
\* desired_state of an issue is a fragment of a template whose name is the
\* issue's template_name.
C26_TemplateScoping ==
    Indexed =>
        /\ \A a, b \in IndexedElements :
              (/\ ElementTemplate(a) # ElementTemplate(b)
               /\ ElementFragment(a).kind = ElementFragment(b).kind
               /\ ElementFragment(a).name = ElementFragment(b).name) =>
                  /\ ElementKey(a) \in DOMAIN msgIndex
                  /\ ElementKey(b) \in DOMAIN msgIndex
                  /\ ElementKey(a) # ElementKey(b)
                  /\ \E c \in IndexedElements :
                        /\ ElementTemplate(c) = ElementTemplate(a)
                        /\ msgIndex[ElementKey(a)] = ElementFragment(c)
        /\ (msgIssue # <<>> /\ msgIssue[1].DesiredState # <<>>) =>
              \E c \in IndexedElements :
                  /\ ElementTemplate(c) = msgIssue[1].TemplateName
                  /\ msgIssue[1].DesiredState[1] = ElementFragment(c)

\* templates T1 and T2 both define Node worker-1; the issue of template T1
\* carries T1's fragment
C26_Witness ==
    /\ Indexed
    /\ msgIssue # <<>>
    /\ Cardinality(DOMAIN msgIndex) = 2
    /\ \E a, b \in IndexedElements :
          /\ ElementTemplate(a) = S_T1
          /\ ElementTemplate(b) = S_T2
          /\ ElementFragment(a).kind = ElementFragment(b).kind
          /\ ElementFragment(a).name = ElementFragment(b).name
          /\ msgIssue[1].TemplateName = S_T1
          /\ msgIssue[1].DesiredState = <<ElementFragment(a)>>

(***************************************************************************)
(* Properties of the OLM trace call (specification SpecMatch).              *)
(***************************************************************************)
\* C27: a suggested trace_olm_subscription call has a non-empty
\* subscription_name and a non-empty subscription_namespace.
C27_TraceArgsNonEmpty ==
    TraceSuggested =>
        /\ msgIssue[1].SuggestedToolCall.Args.subscription_name # <<>>
        /\ msgIssue[1].SuggestedToolCall.Args.subscription_namespace # <<>>

\* a trace call whose namespace was defaulted, the violation carrying none
C27_Witness ==
    /\ TraceSuggested
    /\ msgIssue[1].ResourceNamespace = <<>>
    /\ msgIssue[1].SuggestedToolCall.Args.subscription_name # <<>>
    /\ msgIssue[1].SuggestedToolCall.Args.subscription_namespace = S_openshift_operators

(***************************************************************************)
(* Properties of the size of a diagnosis (specification Spec).              *)
(***************************************************************************)
\* the number of characters of a message
Characters(m) == Cardinality({i \in 1..Len(m) : m[i] \notin ContinuationBytes})

\* C28: every issue of every cluster entry of a diagnosis, the issue recorded
\* for a failed propagated-policy fetch included, has a message of at most 303
\* characters.
C28_PayloadBound ==
    tool = "diagnose" =>
        \A k \in 1..Len(clusters) :
            \A j \in 1..Len(clusters[k].Issues) :
                Characters(clusters[k].Issues[j].Message) <= 303

\* a diagnosis holding a history message that was cut to 303 characters
C28_Witness ==
    /\ ReturnedDiagnosis
    /\ \E k \in 1..Len(clusters) :
          \E j \in 1..Len(clusters[k].Issues) :
              /\ clusters[k].Issues[j].ViolationType = "resource_missing"
              /\ Characters(clusters[k].Issues[j].Message) = 303
(***************************************************************************)
(* The "violation - " prefix of a message (specification SpecMsg).          *)
(***************************************************************************)
\* the positions where "violation - " begins with no "violation - " before
MarkerStarts ==
    {i \in 0..Len(msg) : /\ HasPrefixAt(msg, S_violation_dash, i)
                         /\ ~Contains(SubSeq(msg, 1, i), S_violation_dash)}

\* the issue carries the kind, name and namespace parsed from text
ParsedFrom(issue, text) ==
    LET r == parseViolationResource(text)
    IN  /\ issue.ResourceKind = r.kind
        /\ issue.ResourceName = r.name
        /\ issue.ResourceNamespace = r.ns

\* the classification of the whole message by its text
WholeMessageClass ==
    IF MsgHas(S_not_found) THEN violationMissing
    ELSE IF MsgHas(S_not_as_specified) THEN violationDrift
    ELSE violationUnknown

\* C29: for a message P + "violation - " + M where P does not contain
\* "violation - ", the issue's kind, name and namespace are those parsed from
\* M alone; a message without "violation - " is parsed whole; and the
\* classification by text looks at the whole message, P included (it decides
\* the violation type whenever the OLM branch is not taken).
C29_PrefixStripping ==
    (tool = "classify" /\ msgIssue # <<>>) =>
        /\ \A i \in MarkerStarts :
              ParsedFrom(msgIssue[1], SliceFrom(msg, i + Len(S_violation_dash)))
        /\ ~Contains(msg, S_violation_dash) => ParsedFrom(msgIssue[1], msg)
        /\ (NoOLMText /\ ~OLMBranchByKind(msgIssue[1])) =>
              msgIssue[1].ViolationType = WholeMessageClass

\* a drifted node reported after a prefix that says "not found": the resource
\* comes from the text after the prefix, the type from the prefix
C29_Witness ==
    /\ msgIssue # <<>>
    /\ \E i \in MarkerStarts :
          /\ i > 0
          /\ Contains(SubSeq(msg, 1, i), S_not_found)
          /\ ~Contains(SliceFrom(msg, i), S_not_found)
    /\ msgIssue[1].ResourceKind = <<"n","o","d","e","s">>
    /\ msgIssue[1].ResourceName = S_worker_1
    /\ msgIssue[1].ViolationType = violationMissing

(***************************************************************************)
(* The request-id counter under concurrent calls (specification SpecIDs).   *)
(***************************************************************************)
\* the calls whose Add has returned
Incremented == {c \in 1..Len(calls) : calls[c].pc # "start"}

\* C30: in every interleaving of concurrent generateRequestID calls, the
\* calls obtain pairwise distinct counter values, the counter never
\* decreases, and once every call has incremented it the counter equals the
\* number of calls made.
C30_SafeConcurrentIncrement ==
    /\ [](tool = "ids" =>
            /\ \A c, d \in Incremented :
                  c # d => calls[c].counter # calls[d].counter
            /\ Incremented = 1..Len(calls) => requestIDCounter = Len(calls))
    /\ [][requestIDCounter' >= requestIDCounter]_vars

\* every call has returned, and the call started last obtained the first value
C30_Witness ==
    /\ tool = "ids"
    /\ Len(calls) = MaxCalls
    /\ \A c \in 1..Len(calls) : calls[c].pc = "returned"
    /\ calls[Len(calls)].counter = 1
    /\ calls[1].counter = Len(calls)
    /\ requestIDCounter = Len(calls)

====
